---- MODULE Spec2Model ----
(***************************************************************************)
(* A model of the pictobox image codecs.  The PNG class is modelled at the *)
(* level of the bytes it reads and writes: a PNG instance is the set of    *)
(* variables below, parseFromBuffer / readChunk / encode are the actions,  *)
(* and the helpers of the class are operators computed as the code         *)
(* computes them.                                                          *)
(*                                                                         *)
(* Conventions.                                                            *)
(*   - a Buffer is a sequence of bytes (0..255), indexed from 1 here and   *)
(*     from 0 in the source; Sub(b, s, e) is b.subarray(s, e);             *)
(*   - a field that is `undefined` in the source holds Undef;              *)
(*   - a thrown Error is recorded in `result` by its kind;                 *)
(*   - crc32 (buffer-crc32) and inflate/deflate (pako) are libraries the   *)
(*     repository calls: Crc32 is a position-weighted checksum and         *)
(*     Deflate/Inflate a framed stored stream, inverse of one another.     *)
(***************************************************************************)
EXTENDS Integers, Sequences, FiniteSets, TLC

\* ------------------------------------------------------------------ bounds
\* operations (configure, encode, parseFromBuffer) made on one instance
MaxOps == 2
\* chunks per generated chunk stream
MaxChunks == 3
\* pixels of a round-trip image (width * height)
MaxPixels == 2

\* --------------------------------------------------------------- sentinels
\* an `undefined` number field
Undef == -1
\* a Pixel without the optional alpha member
NoAlpha == -1
\* NaN, the result of arithmetic on `undefined`
NaN == -2

\* ----------------------------------------------------------------- buffers
Min(a, b) == IF a < b THEN a ELSE b

Max(a, b) == IF a < b THEN b ELSE a

\* buffer.subarray(start, end): both ends clamped to the buffer
Sub(buf, start, end) ==
  SubSeq(buf, Min(start, Len(buf)) + 1, Min(end, Len(buf)))

\* buffer[i], `undefined` (NaN in arithmetic) outside the buffer
At(buf, i) == IF i >= 0 /\ i < Len(buf) THEN buf[i + 1] ELSE NaN

\* Buffer.writeUint32BE: the four bytes of a 32-bit value, high byte first
U32BE(n) ==
  << (n \div 16777216) % 256, (n \div 65536) % 256, (n \div 256) % 256, n % 256 >>

\* Buffer.readUint32BE of a four-byte buffer
ReadU32BE(b) == ((b[1] * 256 + b[2]) * 256 + b[3]) * 256 + b[4]

\* Buffer.writeUint16BE / readUint16BE
U16BE(n) == << (n \div 256) % 256, n % 256 >>

ReadU16BE(b) == b[1] * 256 + b[2]

RECURSIVE Concat(_)
\* Buffer.concat of a list of buffers
Concat(bufs) == IF bufs = << >> THEN << >> ELSE Head(bufs) \o Concat(Tail(bufs))

\* -------------------------------------------------------- library functions
RECURSIVE CrcFold(_, _, _)
CrcFold(bytes, i, acc) ==
  IF i > Len(bytes) THEN acc
  ELSE CrcFold(bytes, i + 1, (acc * 31 + bytes[i] * i + 7) % 8388608)

\* crc32.unsigned(buffer): a checksum of every byte and its position
Crc32(bytes) == CrcFold(bytes, 1, 1)

RECURSIVE ByteSum(_)
ByteSum(bytes) == IF bytes = << >> THEN 0 ELSE Head(bytes) + ByteSum(Tail(bytes))

\* pako.deflate: a header byte, the payload, a check byte
Deflate(bytes) == << 120 >> \o bytes \o << (ByteSum(bytes) + 1) % 256 >>

\* pako.inflate followed by Buffer.from: the payload, or a failure
Inflate(z) ==
  IF Len(z) >= 2 /\ z[1] = 120
     /\ z[Len(z)] = (ByteSum(SubSeq(z, 2, Len(z) - 1)) + 1) % 256
  THEN [ok |-> TRUE, data |-> SubSeq(z, 2, Len(z) - 1)]
  ELSE [ok |-> FALSE, data |-> << >>]

\* ------------------------------------------------------------ PNG constants
Magic == << 137, 80, 78, 71, 13, 10, 26, 10 >>

Bits1 == 1
Bits2 == 2
Bits4 == 4
Bits8 == 8
Bits16 == 16

Grayscale == 0
RGB == 2
Indexed == 3
GrayscaleWithAlpha == 4
RGBA == 6

InterlaceNone == 0
Adam7 == 1

FilterNone == 0
FilterSub == 1
FilterUp == 2
FilterAverage == 3
FilterPaeth == 4

\* ChunkTypes: the four bytes of each tag
IHDR == << 73, 72, 68, 82 >>
PLTE == << 80, 76, 84, 69 >>
IDAT == << 73, 68, 65, 84 >>
IEND == << 73, 69, 78, 68 >>

\* ColorTypeChannels[colorType]; `undefined` for any other key
ColorTypeChannels(ct) ==
  CASE ct = Grayscale -> 1
    [] ct = RGB -> 3
    [] ct = Indexed -> 1
    [] ct = GrayscaleWithAlpha -> 2
    [] ct = RGBA -> 4
    [] OTHER -> Undef

\* type.toString(): the tag as text (letters; any other byte shown as "?")
Letters == << "A","B","C","D","E","F","G","H","I","J","K","L","M",
              "N","O","P","Q","R","S","T","U","V","W","X","Y","Z" >>

LowerLetters == << "a","b","c","d","e","f","g","h","i","j","k","l","m",
                   "n","o","p","q","r","s","t","u","v","w","x","y","z" >>

Chr(b) ==
  IF b >= 65 /\ b <= 90 THEN Letters[b - 64]
  ELSE IF b >= 97 /\ b <= 122 THEN LowerLetters[b - 96]
  ELSE "?"

RECURSIVE TypeString(_)
TypeString(bytes) ==
  IF bytes = << >> THEN "" ELSE Chr(Head(bytes)) \o TypeString(Tail(bytes))

\* ------------------------------------------------------------------- state
VARIABLES
  readStream,            \* StreamIn of the running parse: [buffer, pos]
  writeStream,           \* bytes written to the StreamOut of the last encode
  lastChunkType,         \* "" while undefined
  seenIHDR,
  seenPLTE,
  width,
  height,
  bitDepth,
  colorType,
  colorChannels,
  compressionMethod,
  filterMethod,
  interlaceMethod,
  palette,
  compressedSampleData,
  pixels,
  pc,                    \* "idle", "parsing" (inside parse's loop) or "hung"
  op,                    \* the last public call: "new", "set", "encode", "parse"
  result,                \* "none", "ok" or the kind of the Error thrown
  out,                   \* the Buffer returned by the last successful encode
  ops,                   \* number of calls made on this instance
  chunk,                 \* what the last readChunk read off the stream
  before,                \* pixels, palette, op and result when the last call began
  src,                   \* the image `out` was encoded from
  filt,                  \* one scanline through a filter and its unfilter
  paeth,                 \* one call of paethPredictor: arguments and result
  block,                 \* one call of ETC1A4.decompressColorBlock
  order,                 \* one call of ETC1A4.getTileScrambledOrder, tile by tile
  etc,                   \* an ETC1A4 object and the record of the calls made on it
  rgb,                   \* an RGB565A4 object and the record of the calls made on it
  desc,                  \* one call of ETC1A4.descramble: argument and result
  stream,                \* a StreamOut and the record of the calls made on it
  bmp,                   \* a BMP object and the record of the encode made on it
  tga                    \* a TGA object, the buffer it encoded and the TGA object parsed from it

\* the fields of the PNG object that decoding fills
decoded ==
  << lastChunkType, seenIHDR, seenPLTE, width, height, bitDepth, colorType,
     colorChannels, compressionMethod, filterMethod, interlaceMethod, palette,
     compressedSampleData, pixels >>

\* the PNG object and the record of the calls made on it
png ==
  << readStream, writeStream, lastChunkType, seenIHDR, seenPLTE, width, height,
     bitDepth, colorType, colorChannels, compressionMethod, filterMethod,
     interlaceMethod, palette, compressedSampleData, pixels, pc, op, result,
     out, ops, chunk, before, src >>

\* the state outside the PNG object
others == << filt, paeth, block, order, etc, rgb, desc, stream, bmp, tga >>

\* everything but one of them
allButFilt == << png, paeth, block, order, etc, rgb, desc, stream, bmp, tga >>
allButPaeth == << png, filt, block, order, etc, rgb, desc, stream, bmp, tga >>
allButBlock == << png, filt, paeth, order, etc, rgb, desc, stream, bmp, tga >>
allButOrder == << png, filt, paeth, block, etc, rgb, desc, stream, bmp, tga >>
allButEtc == << png, filt, paeth, block, order, rgb, desc, stream, bmp, tga >>
allButRgb == << png, filt, paeth, block, order, etc, desc, stream, bmp, tga >>
allButDesc == << png, filt, paeth, block, order, etc, rgb, stream, bmp, tga >>
allButStream == << png, filt, paeth, block, order, etc, rgb, desc, bmp, tga >>
allButBmp == << png, filt, paeth, block, order, etc, rgb, desc, stream, tga >>
allButTga == << png, filt, paeth, block, order, etc, rgb, desc, stream, bmp >>

vars == << png, others >>

\* ------------------------------------------------------------- validations
\* each validate* returns "ok" or the kind of the Error it throws
validateBitDepth(bd) ==
  IF bd # Bits1 /\ bd # Bits2 /\ bd # Bits4 /\ bd # Bits8 /\ bd # Bits16
  THEN "InvalidBitDepth" ELSE "ok"

\* a validateColorType without the check of 16-bit indexed color
validateColorType_NoIndexed16(ct, bd) ==
  IF ct # Grayscale /\ ct # RGB /\ ct # Indexed /\ ct # GrayscaleWithAlpha /\ ct # RGBA
  THEN "InvalidColorType"
  ELSE IF ct \in {GrayscaleWithAlpha, RGB, RGBA} /\ bd \in {Bits1, Bits2, Bits4}
  THEN "InvalidColorDepthCombination"
  ELSE "ok"

validateColorType(ct, bd) ==
  IF ct # Grayscale /\ ct # RGB /\ ct # Indexed /\ ct # GrayscaleWithAlpha /\ ct # RGBA
  THEN "InvalidColorType"
  ELSE IF ct = Indexed /\ bd = Bits16 THEN "InvalidColorDepthCombination"
  ELSE IF ct = GrayscaleWithAlpha /\ bd = Bits1 THEN "InvalidColorDepthCombination"
  ELSE IF ct = GrayscaleWithAlpha /\ bd = Bits2 THEN "InvalidColorDepthCombination"
  ELSE IF ct = GrayscaleWithAlpha /\ bd = Bits4 THEN "InvalidColorDepthCombination"
  ELSE IF ct = RGB /\ bd = Bits1 THEN "InvalidColorDepthCombination"
  ELSE IF ct = RGB /\ bd = Bits2 THEN "InvalidColorDepthCombination"
  ELSE IF ct = RGB /\ bd = Bits4 THEN "InvalidColorDepthCombination"
  ELSE IF ct = RGBA /\ bd = Bits1 THEN "InvalidColorDepthCombination"
  ELSE IF ct = RGBA /\ bd = Bits2 THEN "InvalidColorDepthCombination"
  ELSE IF ct = RGBA /\ bd = Bits4 THEN "InvalidColorDepthCombination"
  ELSE "ok"

validateCompressionMethod(cm) ==
  IF cm # 0 THEN "InvalidCompressionMethod" ELSE "ok"

validateFilterMethod(fm) ==
  IF fm # 0 THEN "InvalidFilterMethod" ELSE "ok"

validateInterlaceMethod(im) ==
  IF im # InterlaceNone /\ im # Adam7 THEN "InvalidInterlaceMethod"
  ELSE IF im # InterlaceNone THEN "UnsupportedInterlace"
  ELSE "ok"

\* ------------------------------------------------------------------- IHDR
\* The header fields as a record; parseIHDRChunk assigns them one by one and
\* stops at the first Error, so the fields read before it stay assigned.
Header ==
  [width |-> width, height |-> height, bitDepth |-> bitDepth,
   colorType |-> colorType, colorChannels |-> colorChannels,
   compressionMethod |-> compressionMethod, filterMethod |-> filterMethod,
   interlaceMethod |-> interlaceMethod, seenIHDR |-> seenIHDR, err |-> "ok"]

\* dataStream.readUint8() at position p of the chunk data: can it be read
CanRead(data, p, n) == p + n <= Len(data)

parseIHDRChunk(h, data) ==
  IF ~CanRead(data, 0, 4) THEN [h EXCEPT !.err = "RangeError"]
  ELSE LET h1 == [h EXCEPT !.width = ReadU32BE(Sub(data, 0, 4))] IN
  IF ~CanRead(data, 4, 4) THEN [h1 EXCEPT !.err = "RangeError"]
  ELSE LET h2 == [h1 EXCEPT !.height = ReadU32BE(Sub(data, 4, 8))] IN
  IF ~CanRead(data, 8, 1) THEN [h2 EXCEPT !.err = "RangeError"]
  ELSE LET h3 == [h2 EXCEPT !.bitDepth = data[9]] IN
  IF validateBitDepth(h3.bitDepth) # "ok"
  THEN [h3 EXCEPT !.err = validateBitDepth(h3.bitDepth)]
  ELSE IF ~CanRead(data, 9, 1) THEN [h3 EXCEPT !.err = "RangeError"]
  ELSE LET h4 == [h3 EXCEPT !.colorType = data[10]] IN
  IF validateColorType(h4.colorType, h4.bitDepth) # "ok"
  THEN [h4 EXCEPT !.err = validateColorType(h4.colorType, h4.bitDepth)]
  ELSE IF ~CanRead(data, 10, 1) THEN [h4 EXCEPT !.err = "RangeError"]
  ELSE LET h5 == [h4 EXCEPT !.compressionMethod = data[11]] IN
  IF validateCompressionMethod(h5.compressionMethod) # "ok"
  THEN [h5 EXCEPT !.err = validateCompressionMethod(h5.compressionMethod)]
  ELSE IF ~CanRead(data, 11, 1) THEN [h5 EXCEPT !.err = "RangeError"]
  ELSE LET h6 == [h5 EXCEPT !.filterMethod = data[12]] IN
  IF validateFilterMethod(h6.filterMethod) # "ok"
  THEN [h6 EXCEPT !.err = validateFilterMethod(h6.filterMethod)]
  ELSE IF ~CanRead(data, 12, 1) THEN [h6 EXCEPT !.err = "RangeError"]
  ELSE LET h7 == [h6 EXCEPT !.interlaceMethod = data[13]] IN
  IF validateInterlaceMethod(h7.interlaceMethod) # "ok"
  THEN [h7 EXCEPT !.err = validateInterlaceMethod(h7.interlaceMethod)]
  ELSE [h7 EXCEPT !.colorChannels = ColorTypeChannels(h7.colorType),
                  !.seenIHDR = TRUE]

\* ------------------------------------------------------------------- PLTE
Pixel(r, g, b, a) == [red |-> r, green |-> g, blue |-> b, alpha |-> a]

RECURSIVE PaletteEntries(_)
\* the while loop of parsePLTEChunk over a payload of 3n bytes
PaletteEntries(data) ==
  IF data = << >> THEN << >>
  ELSE << Pixel(data[1], data[2], data[3], NoAlpha) >>
       \o PaletteEntries(SubSeq(data, 4, Len(data)))

parsePLTEChunk(pal, data) ==
  IF Len(data) % 3 # 0 THEN [palette |-> pal, err |-> "InvalidPaletteLength"]
  ELSE [palette |-> pal \o PaletteEntries(data), err |-> "ok"]

\* ------------------------------------------------------- scanline filters
\* JavaScript arithmetic on a value that may be `undefined`: x + y and x & 0xFF
AddN(x, y) == IF x = NaN \/ y = NaN THEN NaN ELSE x + y

Byte(x) == IF x = NaN THEN 0 ELSE x % 256

\* Math.floor((x + y) / 2)
HalfN(x, y) == IF x = NaN \/ y = NaN THEN NaN ELSE (x + y) \div 2

Abs(x) == IF x < 0 THEN -x ELSE x

\* a left neighbour taken one byte back, whatever the pixel size
LeftOf_OneByte(unfiltered, i, pixelBits) ==
  IF i < 1 THEN 0 ELSE unfiltered[i]

\* pixelSize is (colorChannels * bitDepth) / 8, a fraction for the depths
\* below 8; the model carries it in bits, pixelBits = 8 * pixelSize.
\* unfiltered[i - pixelSize] of the bytes rebuilt so far: a fractional index
\* reads `undefined`, an index not yet written reads the 0 of Buffer.alloc.
LeftOf(unfiltered, i, pixelBits) ==
  IF 8 * i < pixelBits THEN 0
  ELSE IF pixelBits % 8 # 0 THEN NaN
  ELSE IF i - pixelBits \div 8 < Len(unfiltered) THEN unfiltered[i - pixelBits \div 8 + 1]
  ELSE 0

\* previousScanline ? previousScanline[i] : 0
AboveOf(prev, i) == IF prev.has THEN At(prev.buf, i) ELSE 0

\* (previousScanline && i >= pixelSize) ? previousScanline[i - pixelSize] : 0
UpperLeftOf(prev, i, pixelBits) ==
  IF prev.has /\ 8 * i >= pixelBits
  THEN IF pixelBits % 8 # 0 THEN NaN ELSE At(prev.buf, i - pixelBits \div 8)
  ELSE 0

\* a predictor whose comparisons are strict
paethPredictor_StrictTies(a, b, c) ==
  LET p == a + b - c
      pa == Abs(p - a)
      pb == Abs(p - b)
      pc_ == Abs(p - c)
  IN IF pa < pb /\ pa < pc_ THEN a
     ELSE IF pb < pc_ THEN b
     ELSE c

paethPredictor(a, b, c) ==
  IF a = NaN \/ b = NaN \/ c = NaN THEN c
  ELSE LET p == a + b - c
           pa == Abs(p - a)
           pb == Abs(p - b)
           pc_ == Abs(p - c)
       IN IF pa <= pb /\ pa <= pc_ THEN a
          ELSE IF pb <= pc_ THEN b
          ELSE c

RECURSIVE SubLoop(_, _, _)
SubLoop(scanline, pixelBits, unfiltered) ==
  LET i == Len(unfiltered) IN
  IF i >= Len(scanline) THEN unfiltered
  ELSE SubLoop(scanline, pixelBits,
         Append(unfiltered, Byte(AddN(scanline[i + 1], LeftOf(unfiltered, i, pixelBits)))))

unfilterScanlineSub(scanline, pixelBits) == SubLoop(scanline, pixelBits, << >>)

unfilterScanlineUp(scanline, prev) ==
  [k \in 1..Len(scanline) |-> Byte(AddN(scanline[k], AboveOf(prev, k - 1)))]

RECURSIVE AverageLoop(_, _, _, _)
AverageLoop(scanline, prev, pixelBits, unfiltered) ==
  LET i == Len(unfiltered) IN
  IF i >= Len(scanline) THEN unfiltered
  ELSE AverageLoop(scanline, prev, pixelBits,
         Append(unfiltered,
           Byte(AddN(scanline[i + 1],
                     HalfN(LeftOf(unfiltered, i, pixelBits), AboveOf(prev, i))))))

unfilterScanlineAverage(scanline, prev, pixelBits) ==
  AverageLoop(scanline, prev, pixelBits, << >>)

RECURSIVE PaethLoop(_, _, _, _)
PaethLoop(scanline, prev, pixelBits, unfiltered) ==
  LET i == Len(unfiltered) IN
  IF i >= Len(scanline) THEN unfiltered
  ELSE PaethLoop(scanline, prev, pixelBits,
         Append(unfiltered,
           Byte(AddN(scanline[i + 1],
                     paethPredictor(LeftOf(unfiltered, i, pixelBits),
                                    AboveOf(prev, i),
                                    UpperLeftOf(prev, i, pixelBits))))))

unfilterScanlinePaeth(scanline, prev, pixelBits) ==
  PaethLoop(scanline, prev, pixelBits, << >>)

\* ------------------------------------------------------- samples to pixels
\* number of samples parseScanline reads for one pixel of each color type
SamplesPerPixel(ct) ==
  CASE ct = Grayscale -> 1
    [] ct = RGB -> 3
    [] ct = Indexed -> 1
    [] ct = GrayscaleWithAlpha -> 2
    [] ct = RGBA -> 4
    [] OTHER -> 0

\* a readSample that takes the low byte of a 16-bit sample first
readSample_LowByteFirst(scanline, p, k, bd) ==
  IF bd = Bits8 THEN scanline[p + k + 1]
  ELSE scanline[p + 2 * k + 2] * 256 + scanline[p + 2 * k + 1]

\* readSample: the k-th sample of the pixel that starts at byte p
readSample(scanline, p, k, bd) ==
  IF bd = Bits8 THEN scanline[p + k + 1]
  ELSE ReadU16BE(Sub(scanline, p + 2 * k, p + 2 * k + 2))

\* the pixel parseScanline builds from the samples at byte p
PixelAt(scanline, p, ct, bd, pal) ==
  LET s(k) == readSample(scanline, p, k, bd) IN
  CASE ct = Grayscale -> Pixel(s(0), s(0), s(0), NoAlpha)
    [] ct = RGB -> Pixel(s(0), s(1), s(2), NoAlpha)
    [] ct = Indexed ->
         IF s(0) < Len(pal)
         THEN Pixel(pal[s(0) + 1].red, pal[s(0) + 1].green, pal[s(0) + 1].blue, NoAlpha)
         ELSE Pixel(0, 0, 0, NoAlpha)
    [] ct = GrayscaleWithAlpha -> Pixel(s(0), s(0), s(0), s(1))
    [] ct = RGBA -> Pixel(s(0), s(1), s(2), s(3))

RECURSIVE ScanlineLoop(_, _, _, _, _, _)
\* the while loop of parseScanline from byte p on; pix is this.pixels
ScanlineLoop(scanline, p, ct, bd, pal, pix) ==
  IF p >= Len(scanline) THEN [pixels |-> pix, err |-> "ok"]
  ELSE IF SamplesPerPixel(ct) = 0
  \* no case of the switch reads a byte: the loop pushes pixels for ever
  THEN [pixels |-> pix, err |-> "Hang"]
  ELSE IF bd # Bits8 /\ bd # Bits16
  THEN [pixels |-> pix, err |-> "UnsupportedBitDepth"]
  ELSE LET n == SamplesPerPixel(ct) * (bd \div 8) IN
       IF p + n > Len(scanline) THEN [pixels |-> pix, err |-> "RangeError"]
       ELSE ScanlineLoop(scanline, p + n, ct, bd, pal,
                         Append(pix, PixelAt(scanline, p, ct, bd, pal)))

parseScanline(scanline, ct, bd, pal, pix) ==
  ScanlineLoop(scanline, 0, ct, bd, pal, pix)

\* the switch of processSampleData on the filter tag
Unfilter(filterType, filteredLine, prev, pixelBits) ==
  CASE filterType = FilterNone -> filteredLine
    [] filterType = FilterSub -> unfilterScanlineSub(filteredLine, pixelBits)
    [] filterType = FilterUp -> unfilterScanlineUp(filteredLine, prev)
    [] filterType = FilterAverage -> unfilterScanlineAverage(filteredLine, prev, pixelBits)
    [] filterType = FilterPaeth -> unfilterScanlinePaeth(filteredLine, prev, pixelBits)

RECURSIVE SampleLoop(_, _, _, _, _, _, _, _)
\* the while loop of processSampleData; pos8 and size8 are dataStream.pos and
\* scanlineSize in eighths of a byte (size8 = 8 + pixelBits * width)
SampleLoop(data, pos8, pixelBits, w, prev, ct, bdpal, pix) ==
  LET size8 == 8 + pixelBits * w IN
  IF ~(pos8 < 8 * Len(data)) THEN [pixels |-> pix, err |-> "ok"]
  ELSE LET line == Sub(data, pos8 \div 8, (pos8 + size8) \div 8)
           filterType == line[1]
           filteredLine == Sub(line, 1, size8 \div 8)
       IN IF filterType \notin {FilterNone, FilterSub, FilterUp, FilterAverage, FilterPaeth}
          THEN [pixels |-> pix, err |-> "UnknownFilterType"]
          ELSE LET unfilteredScanline == Unfilter(filterType, filteredLine, prev, pixelBits)
                   r == parseScanline(unfilteredScanline, ct, bdpal.bitDepth, bdpal.palette, pix)
               IN IF r.err # "ok" THEN r
                  ELSE SampleLoop(data, pos8 + size8, pixelBits, w,
                                  [has |-> TRUE, buf |-> unfilteredScanline],
                                  ct, bdpal, r.pixels)

\* processSampleData: this.pixels after the call and the Error, if any
processSampleData(csd, channels, bd, w, ct, pal, pix) ==
  LET decompressed == Inflate(csd) IN
  IF ~decompressed.ok THEN [pixels |-> pix, err |-> "InflateError"]
  ELSE SampleLoop(decompressed.data, 0, channels * bd, w,
                  [has |-> FALSE, buf |-> << >>], ct,
                  [bitDepth |-> bd, palette |-> pal], pix)

\* ----------------------------------------------------------------- encoder
\* writeChunk: length, type, data, CRC of type || data
writeChunk(type, data) ==
  U32BE(Len(data)) \o type \o data \o U32BE(Crc32(type \o data))

\* the validations at the head of encodeIHDRChunk, in order
ValidateAll(bd, ct, cm, fm, im) ==
  IF validateBitDepth(bd) # "ok" THEN validateBitDepth(bd)
  ELSE IF validateColorType(ct, bd) # "ok" THEN validateColorType(ct, bd)
  ELSE IF validateCompressionMethod(cm) # "ok" THEN validateCompressionMethod(cm)
  ELSE IF validateFilterMethod(fm) # "ok" THEN validateFilterMethod(fm)
  ELSE validateInterlaceMethod(im)

\* encodeIHDRChunk: the Error, or the chunk appended to writeStream
encodeIHDRChunk(img) ==
  LET v == ValidateAll(img.bitDepth, img.colorType, img.compressionMethod,
                       img.filterMethod, img.interlaceMethod) IN
  IF v # "ok" THEN [err |-> v, bytes |-> << >>]
  ELSE IF img.width = Undef \/ img.height = Undef
  THEN [err |-> "TypeError", bytes |-> << >>]
  ELSE [err |-> "ok",
        bytes |-> writeChunk(IHDR,
                    U32BE(img.width) \o U32BE(img.height)
                    \o << img.bitDepth, img.colorType, img.compressionMethod,
                          img.filterMethod, img.interlaceMethod >>)]

\* palette.findIndex(same red, green, blue): 0-based index or -1
RECURSIVE FindFrom(_, _, _)
FindFrom(pal, pixel, i) ==
  IF i > Len(pal) THEN -1
  ELSE IF pal[i].red = pixel.red /\ pal[i].green = pixel.green /\ pal[i].blue = pixel.blue
  THEN i - 1
  ELSE FindFrom(pal, pixel, i + 1)

\* a search that returns the last entry of that colour
findIndex_Last(pal, pixel) ==
  LET ks == { k \in 1..Len(pal) : FindFrom(<< pal[k] >>, pixel, 1) = 0 } IN
  IF ks = {} THEN -1 ELSE (CHOOSE k \in ks : \A j \in ks : j <= k) - 1

findIndex(pal, pixel) == FindFrom(pal, pixel, 1)

RECURSIVE BuildPalette(_, _)
\* the for loop of encodePLTEChunk over this.pixels
BuildPalette(pal, pix) ==
  IF pix = << >> THEN pal
  ELSE BuildPalette(IF findIndex(pal, Head(pix)) = -1 THEN Append(pal, Head(pix)) ELSE pal,
                    Tail(pix))

RECURSIVE PaletteBytes(_)
PaletteBytes(pal) ==
  IF pal = << >> THEN << >>
  ELSE << Head(pal).red, Head(pal).green, Head(pal).blue >> \o PaletteBytes(Tail(pal))

\* encodePLTEChunk: this.palette after the call, the Error or the chunk
encodePLTEChunk(pal, pix) ==
  LET built == IF Len(pal) = 0 THEN BuildPalette(pal, pix) ELSE pal IN
  IF \E k \in 1..Len(built) :
       built[k].red > 255 \/ built[k].green > 255 \/ built[k].blue > 255
  THEN [palette |-> built, err |-> "RangeError", bytes |-> << >>]
  ELSE [palette |-> built, err |-> "ok", bytes |-> writeChunk(PLTE, PaletteBytes(built))]

\* the samples encodePixels writes for one pixel, in order
PixelSamples(ct, pixel, pal) ==
  CASE ct = Grayscale -> << pixel.red >>
    [] ct = RGB -> << pixel.red, pixel.green, pixel.blue >>
    [] ct = Indexed -> << findIndex(pal, pixel) >>
    [] ct = GrayscaleWithAlpha ->
         << pixel.red, IF pixel.alpha = NoAlpha THEN 0 ELSE pixel.alpha >>
    [] ct = RGBA ->
         << pixel.red, pixel.green, pixel.blue,
            IF pixel.alpha = NoAlpha THEN 0 ELSE pixel.alpha >>

RECURSIVE writeSamples(_, _, _)
\* writeSample for each sample in turn: the bytes, or the first Error
writeSamples(samples, bd, acc) ==
  IF samples = << >> THEN [err |-> "ok", bytes |-> acc]
  ELSE IF bd = Bits8
  THEN IF Head(samples) > 255 THEN [err |-> "RangeError", bytes |-> acc]
       ELSE writeSamples(Tail(samples), bd, Append(acc, Head(samples)))
  ELSE IF bd = Bits16
  THEN IF Head(samples) > 65535 THEN [err |-> "RangeError", bytes |-> acc]
       ELSE writeSamples(Tail(samples), bd, acc \o U16BE(Head(samples)))
  ELSE [err |-> "UnsupportedBitDepth", bytes |-> acc]

RECURSIVE PixelLoop(_, _, _)
\* the two nested loops of encodePixels, from pixel index k on
PixelLoop(img, k, acc) ==
  IF k >= img.width * img.height THEN [err |-> "ok", bytes |-> acc]
  ELSE LET acc1 == IF k % img.width = 0 THEN Append(acc, FilterNone) ELSE acc IN
       IF k >= Len(img.pixels)
       \* pixel is undefined: findIndex over an empty palette never touches it
       THEN [err |-> IF img.colorType = Indexed /\ Len(img.palette) = 0
                     THEN "ColorNotInPalette" ELSE "TypeError",
             bytes |-> acc1]
       ELSE LET pixel == img.pixels[k + 1] IN
            IF img.colorType = Indexed /\ findIndex(img.palette, pixel) = -1
            THEN [err |-> "ColorNotInPalette", bytes |-> acc1]
            ELSE LET w == writeSamples(PixelSamples(img.colorType, pixel, img.palette),
                                       img.bitDepth, acc1)
                 IN IF w.err # "ok" THEN w ELSE PixelLoop(img, k + 1, w.bytes)

\* the rows of a zero-width image hold their filter byte only
EmptyRows(img) == [y \in 1..img.height |-> FilterNone]

\* encodePixels: the Error, or the IDAT chunk appended to writeStream
encodePixels(img) ==
  LET scanlines == IF img.width = 0
                   THEN [err |-> "ok", bytes |-> EmptyRows(img)]
                   ELSE PixelLoop(img, 0, << >>) IN
  IF scanlines.err # "ok" THEN [err |-> scanlines.err, bytes |-> << >>]
  ELSE [err |-> "ok", bytes |-> writeChunk(IDAT, Deflate(scanlines.bytes))]

\* encode: writeStream and this.palette when it returns or throws
encode(img) ==
  LET ihdr == encodeIHDRChunk(img) IN
  IF ihdr.err # "ok"
  THEN [err |-> ihdr.err, written |-> Magic, palette |-> img.palette]
  ELSE LET plte == IF img.colorType = Indexed
                   THEN encodePLTEChunk(img.palette, img.pixels)
                   ELSE [palette |-> img.palette, err |-> "ok", bytes |-> << >>] IN
  IF plte.err # "ok"
  THEN [err |-> plte.err, written |-> Magic \o ihdr.bytes, palette |-> plte.palette]
  ELSE LET idat == encodePixels([img EXCEPT !.palette = plte.palette]) IN
  IF idat.err # "ok"
  THEN [err |-> idat.err, written |-> Magic \o ihdr.bytes \o plte.bytes,
        palette |-> plte.palette]
  ELSE [err |-> "ok",
        written |-> Magic \o ihdr.bytes \o plte.bytes \o idat.bytes
                    \o writeChunk(IEND, << >>),
        palette |-> plte.palette]

\* ------------------------------------------------------------------ decoder
\* parseHeader: readStream.pos when it returns or throws, and the Error.
\* The last two comparisons of the source test highBit again, not the byte
\* just read.
parseHeader(buf) ==
  IF Len(buf) < 1 THEN [pos |-> 1, err |-> "RangeError"]
  ELSE LET highBit == buf[1] IN
  IF highBit # 137 THEN [pos |-> 1, err |-> "MalformedHeader"]
  ELSE IF Sub(buf, 1, 4) # << 80, 78, 71 >> THEN [pos |-> 4, err |-> "MalformedHeader"]
  ELSE IF Sub(buf, 4, 6) # << 13, 10 >> THEN [pos |-> 6, err |-> "MalformedHeader"]
  ELSE IF Len(buf) < 7 THEN [pos |-> 7, err |-> "RangeError"]
  ELSE IF highBit # 137 THEN [pos |-> 7, err |-> "MalformedHeader"]
  ELSE IF Len(buf) < 8 THEN [pos |-> 8, err |-> "RangeError"]
  ELSE IF highBit # 137 THEN [pos |-> 8, err |-> "MalformedHeader"]
  ELSE [pos |-> 8, err |-> "ok"]

\* readStream.hasData()
hasData == readStream.pos < Len(readStream.buffer)

\* a loop that never takes the break after IEND
ended_Never == FALSE

\* the test of parse's loop for the break: the last chunk was IEND
ended == lastChunkType = "IEND"

\* the decoder fields as readChunk leaves them, with the Error it throws
Fields ==
  [h |-> Header, lastChunkType |-> lastChunkType, palette |-> palette,
   compressedSampleData |-> compressedSampleData, pixels |-> pixels,
   err |-> "ok"]

\* an ancillary test that takes only a lowercase first letter
isAncillary_LowercaseOnly(type) == At(type, 0) >= 97 /\ At(type, 0) <= 122

\* the test readChunk makes for a chunk it skips: the first byte of the tag
\* is not an uppercase letter
isAncillary(type) == At(type, 0) < 65 \/ At(type, 0) > 90

\* readChunk after the CRC comparison: the ordering checks and the dispatch
dispatchChunk(type, data) ==
  LET typeString == TypeString(type)
      f == Fields
  IN
  IF ~seenIHDR /\ type # IHDR THEN [f EXCEPT !.err = "OutOfOrderChunk"]
  ELSE IF seenIHDR /\ colorType = Indexed /\ ~seenPLTE /\ type = IDAT
  THEN [f EXCEPT !.err = "MissingPalette"]
  ELSE IF seenIHDR /\ (colorType = Grayscale \/ colorType = GrayscaleWithAlpha) /\ type = PLTE
  THEN [f EXCEPT !.err = "UnexpectedPalette"]
  ELSE IF seenIHDR /\ type = IHDR THEN [f EXCEPT !.err = "DuplicateChunk"]
  ELSE IF seenPLTE /\ type = PLTE THEN [f EXCEPT !.err = "DuplicateChunk"]
  ELSE IF isAncillary(type)
  THEN [f EXCEPT !.lastChunkType = typeString]
  ELSE IF typeString = "IHDR"
  THEN LET h == parseIHDRChunk(Header, data) IN
       [f EXCEPT !.h = [h EXCEPT !.err = "ok"], !.err = h.err,
                 !.lastChunkType = IF h.err = "ok" THEN typeString ELSE @]
  ELSE IF typeString = "PLTE"
  THEN LET r == parsePLTEChunk(palette, data) IN
       [f EXCEPT !.palette = r.palette, !.err = r.err,
                 !.lastChunkType = IF r.err = "ok" THEN typeString ELSE @]
  ELSE IF typeString = "IDAT"
  THEN [f EXCEPT !.compressedSampleData = compressedSampleData \o data,
                 !.lastChunkType = typeString]
  ELSE IF typeString = "IEND"
  THEN LET r == processSampleData(compressedSampleData, colorChannels, bitDepth,
                                  width, colorType, palette, pixels) IN
       [f EXCEPT !.pixels = r.pixels, !.err = r.err,
                 !.lastChunkType = IF r.err = "ok" THEN typeString ELSE @]
  ELSE [f EXCEPT !.err = "UnsupportedCriticalChunk"]

\* a readChunk that makes the first-chunk check before it compares the CRCs
readChunk_OrderFirst(type, data, expectedCRC) ==
  IF ~seenIHDR /\ type # IHDR THEN [Fields EXCEPT !.err = "OutOfOrderChunk"]
  ELSE IF Crc32(type \o data) # expectedCRC
  THEN [Fields EXCEPT !.err = "ChecksumMismatch"]
  ELSE dispatchChunk(type, data)

\* readChunk from the CRC comparison on, for a chunk read whole
readChunk(type, data, expectedCRC) ==
  LET calculatedCRC == Crc32(type \o data) IN
  IF calculatedCRC # expectedCRC THEN [Fields EXCEPT !.err = "ChecksumMismatch"]
  ELSE dispatchChunk(type, data)

\* the four reads at the head of readChunk: the chunk, or the position at
\* which a read past the end of the buffer throws
ReadRaw(rs) ==
  LET buf == rs.buffer
      pos == rs.pos
      lengthBytes == Sub(buf, pos, pos + 4)
  IN IF Len(lengthBytes) < 4
     THEN [whole |-> FALSE, pos |-> pos + 4, type |-> << >>, data |-> << >>, crc |-> 0]
     ELSE LET length == ReadU32BE(lengthBytes)
              crcBytes == Sub(buf, pos + 8 + length, pos + 12 + length)
          IN [whole |-> Len(crcBytes) = 4,
              pos |-> pos + 12 + length,
              type |-> Sub(buf, pos + 4, pos + 8),
              data |-> Sub(buf, pos + 8, pos + 8 + length),
              crc |-> IF Len(crcBytes) = 4 THEN ReadU32BE(crcBytes) ELSE 0]

\* ------------------------------------------------------------------ actions
\* chunk: the number n of chunks read in this call, the last one as read
\* (whole: all four reads stayed inside the buffer) and the tags of the chunks
\* readChunk has returned from without an Error
NoChunk ==
  [n |-> 0, whole |-> FALSE, type |-> << >>, data |-> << >>, crc |-> 0, done |-> << >>]

\* before: the state a call finds
Snapshot == [pixels |-> pixels, palette |-> palette, op |-> op, result |-> result]

NoImage ==
  [width |-> Undef, height |-> Undef, bitDepth |-> Undef, colorType |-> Undef,
   compressionMethod |-> 0, filterMethod |-> 0, interlaceMethod |-> Undef,
   palette |-> << >>, pixels |-> << >>]

\* the public fields of the object, as encode reads them
Image ==
  [width |-> width, height |-> height, bitDepth |-> bitDepth, colorType |-> colorType,
   compressionMethod |-> compressionMethod, filterMethod |-> filterMethod,
   interlaceMethod |-> interlaceMethod, palette |-> palette, pixels |-> pixels]

\* new PNG(): the field initialisers of the class
Fresh ==
  /\ readStream = [buffer |-> << >>, pos |-> 0]
  /\ writeStream = << >>
  /\ lastChunkType = ""
  /\ seenIHDR = FALSE
  /\ seenPLTE = FALSE
  /\ width = Undef
  /\ height = Undef
  /\ bitDepth = Undef
  /\ colorType = Undef
  /\ colorChannels = Undef
  /\ compressionMethod = 0
  /\ filterMethod = 0
  /\ interlaceMethod = Undef
  /\ palette = << >>
  /\ compressedSampleData = << >>
  /\ pixels = << >>

\* no previous scanline (previousScanline = null)
NoRow == [has |-> FALSE, buf |-> << >>]

\* no scanline in hand
NoFilt ==
  [pc |-> "idle", kind |-> 0, pixelSize |-> 1, row |-> << >>, prev |-> NoRow,
   filtered |-> << >>, unfiltered |-> << >>]

\* a new PNG object on which no call was made
Idle ==
  /\ Fresh
  /\ pc = "idle"
  /\ op = "new"
  /\ result = "none"
  /\ out = << >>
  /\ ops = 0
  /\ chunk = NoChunk
  /\ before = [pixels |-> << >>, palette |-> << >>, op |-> "new", result |-> "none"]
  /\ src = NoImage

\* no call of paethPredictor made
NoPaeth == [pc |-> "idle", a |-> 0, b |-> 0, c |-> 0, prediction |-> 0]

\* no call of decompressColorBlock made
NoBlock ==
  [pc |-> "idle", data |-> << >>, err |-> "none", base |-> << >>, decompressed |-> << >>]

\* the locals of getTileScrambledOrder at the head of its loop
TileStart ==
  [tile |-> 0, baseAccumulator |-> 0, rowAccumulator |-> 0, baseNumber |-> 0,
   rowNumber |-> 0, orderTable |-> << >>]

\* no call of getTileScrambledOrder made
NoOrder ==
  [pc |-> "idle", width |-> 0, height |-> 0, blocksPerRow |-> 0, blocksPerColumn |-> 0,
   s |-> TileStart]

\* new ETC1A4(): no field has an initialiser; buffer is the buffer of
\* readStream, pos its position, result the outcome of the last
\* parseFromBuffer, ops the number of assignments and calls made
NewETC1A4 ==
  [width |-> Undef, height |-> Undef, hasAlpha |-> Undef, blocksPerRow |-> Undef,
   blocksPerColumn |-> Undef, pixels |-> Undef, buffer |-> << >>, pos |-> 0,
   result |-> "none", ops |-> 0]

\* an alphaData argument that is undefined: no Buffer holds Undef
NoAlphaData == << Undef >>

\* nothing returned by encode
NoBuffers == [pixelData |-> << >>, alphaData |-> << >>]

\* new RGB565A4(): width and height have no initialiser, pixels is [];
\* pixelData and alphaData are the arguments of the last parseFromBuffer,
\* out what the last encode returned, before the number of pixels when the
\* last call began, result the outcome of the last call
NewRGB565A4 ==
  [width |-> Undef, height |-> Undef, pixels |-> << >>, pixelData |-> << >>,
   alphaData |-> NoAlphaData, out |-> NoBuffers, before |-> 0, op |-> "new",
   result |-> "none", ops |-> 0]

\* no call of descramble made
NoDesc ==
  [pc |-> "idle", width |-> 0, height |-> 0, scrambled |-> << >>, err |-> "none",
   descrambled |-> << >>]

\* bytes() not called since the last write
NotReturned == << Undef >>

\* no StreamOut constructed
NoStream ==
  [buffer |-> << >>, pos |-> 0, written |-> << >>, returned |-> NotReturned, ops |-> 0,
   made |-> FALSE]

\* new BMP(): the fields the constructor assigns, infoHeaderType still
\* undefined, no encode made
NewBMP ==
  [width |-> 0, height |-> 0, planes |-> 1, infoHeaderType |-> Undef, pixelDensity |-> 0,
   paletteColorCount |-> 0, compressionType |-> 0, horizontalResolution |-> 0,
   verticalResolution |-> 0, usedColors |-> 0, importantColors |-> 0,
   palette |-> << >>, scanlines |-> << >>, bottomUp |-> TRUE,
   writeStream |-> [buffer |-> << >>, pos |-> 0],
   result |-> "none", out |-> NotReturned,
   infoStart |-> 0, dataStart |-> 0, dataEnd |-> 0, unpatched |-> << >>]

\* new TGA(): the fields the constructor assigns
NewTGA ==
  [imageIdentificationLength |-> 0, identification |-> << >>, colorMapType |-> 0,
   imageType |-> 2,
   colorMapSpecification |-> [firstEntryIndex |-> 0, length |-> 0, entrySize |-> 0],
   imageSpecification |-> [originX |-> 0, originY |-> 0, width |-> 0, height |-> 0,
                           pixelDensity |-> 32, attributeDensity |-> 8,
                           bottomUp |-> TRUE, leftToRight |-> TRUE],
   colorMap |-> << >>, pixels |-> << >>]

\* two new TGA objects, nothing encoded or parsed
NoTga ==
  [pc |-> "new", from |-> NewTGA, encoded |-> "none", buffer |-> NotReturned,
   into |-> NewTGA, result |-> "none"]

\* nothing in hand outside the PNG object but x
OthersIdle(x) ==
  /\ x = "filt" \/ filt = NoFilt
  /\ x = "paeth" \/ paeth = NoPaeth
  /\ x = "block" \/ block = NoBlock
  /\ x = "order" \/ order = NoOrder
  /\ x = "etc" \/ etc = NewETC1A4
  /\ x = "rgb" \/ rgb = NewRGB565A4
  /\ x = "desc" \/ desc = NoDesc
  /\ x = "stream" \/ stream = NoStream
  /\ x = "bmp" \/ bmp = NewBMP
  /\ x = "tga" \/ tga = NoTga

Init ==
  /\ Idle
  /\ OthersIdle("")

\* the caller assigns the public fields before encode()
Configure(img) ==
  /\ UNCHANGED others
  /\ pc = "idle"
  /\ ops < MaxOps
  /\ width' = img.width
  /\ height' = img.height
  /\ bitDepth' = img.bitDepth
  /\ colorType' = img.colorType
  /\ compressionMethod' = img.compressionMethod
  /\ filterMethod' = img.filterMethod
  /\ interlaceMethod' = img.interlaceMethod
  /\ palette' = img.palette
  /\ pixels' = img.pixels
  /\ op' = "set"
  /\ result' = "none"
  /\ ops' = ops + 1
  /\ before' = Snapshot
  /\ UNCHANGED << readStream, writeStream, lastChunkType, seenIHDR, seenPLTE,
                  colorChannels, compressedSampleData, pc, out, chunk, src >>

\* encode()
Encode ==
  /\ UNCHANGED others
  /\ pc = "idle"
  /\ ops < MaxOps
  /\ LET e == encode(Image) IN
       /\ writeStream' = e.written
       /\ palette' = e.palette
       /\ result' = e.err
       /\ out' = IF e.err = "ok" THEN e.written ELSE out
       /\ src' = IF e.err = "ok" THEN Image ELSE src
  /\ op' = "encode"
  /\ ops' = ops + 1
  /\ before' = Snapshot
  /\ UNCHANGED << readStream, lastChunkType, seenIHDR, seenPLTE, width, height,
                  bitDepth, colorType, colorChannels, compressionMethod,
                  filterMethod, interlaceMethod, compressedSampleData, pixels,
                  pc, chunk >>

\* parseFromBuffer(buffer) up to the head of parse's loop
ParseFromBuffer(buffer) ==
  /\ UNCHANGED others
  /\ pc = "idle"
  /\ ops < MaxOps
  /\ LET hd == parseHeader(buffer) IN
       /\ readStream' = [buffer |-> buffer, pos |-> hd.pos]
       /\ pc' = IF hd.err = "ok" THEN "parsing" ELSE "idle"
       /\ result' = IF hd.err = "ok" THEN "none" ELSE hd.err
  /\ op' = "parse"
  /\ ops' = ops + 1
  /\ chunk' = NoChunk
  /\ before' = Snapshot
  /\ UNCHANGED << writeStream, decoded, out, src >>

\* one turn of parse's loop: readChunk()
ReadChunk ==
  /\ UNCHANGED others
  /\ pc = "parsing"
  /\ hasData
  /\ ~ended
  /\ LET raw == ReadRaw(readStream)
         r == IF raw.whole THEN readChunk(raw.type, raw.data, raw.crc)
              ELSE [Fields EXCEPT !.err = "RangeError"]
     IN
       /\ readStream' = [readStream EXCEPT !.pos = raw.pos]
       /\ chunk' = [n |-> chunk.n + 1, whole |-> raw.whole, type |-> raw.type,
                    data |-> raw.data, crc |-> raw.crc,
                    done |-> IF r.err = "ok"
                             THEN Append(chunk.done, TypeString(raw.type))
                             ELSE chunk.done]
       /\ lastChunkType' = r.lastChunkType
       /\ width' = r.h.width
       /\ height' = r.h.height
       /\ bitDepth' = r.h.bitDepth
       /\ colorType' = r.h.colorType
       /\ colorChannels' = r.h.colorChannels
       /\ compressionMethod' = r.h.compressionMethod
       /\ filterMethod' = r.h.filterMethod
       /\ interlaceMethod' = r.h.interlaceMethod
       /\ seenIHDR' = r.h.seenIHDR
       /\ palette' = r.palette
       /\ compressedSampleData' = r.compressedSampleData
       /\ pixels' = r.pixels
       /\ pc' = IF r.err = "ok" THEN "parsing"
                ELSE IF r.err = "Hang" THEN "hung" ELSE "idle"
       /\ result' = IF r.err = "ok" THEN "none" ELSE r.err
  /\ UNCHANGED << writeStream, seenPLTE, op, out, ops, before, src >>

\* parse's loop ends: no data left, or the last chunk was IEND
ParseReturn ==
  /\ UNCHANGED others
  /\ pc = "parsing"
  /\ ~hasData \/ ended
  /\ pc' = "idle"
  /\ result' = "ok"
  /\ UNCHANGED << readStream, writeStream, decoded, op, out, ops, chunk, before, src >>

\* a second object: new PNG(), the caller keeping the encoded buffer
New ==
  /\ UNCHANGED others
  /\ pc = "idle"
  /\ out # << >>
  /\ op = "encode"
  /\ readStream' = [buffer |-> << >>, pos |-> 0]
  /\ writeStream' = << >>
  /\ lastChunkType' = ""
  /\ seenIHDR' = FALSE
  /\ seenPLTE' = FALSE
  /\ width' = Undef
  /\ height' = Undef
  /\ bitDepth' = Undef
  /\ colorType' = Undef
  /\ colorChannels' = Undef
  /\ compressionMethod' = 0
  /\ filterMethod' = 0
  /\ interlaceMethod' = Undef
  /\ palette' = << >>
  /\ compressedSampleData' = << >>
  /\ pixels' = << >>
  /\ op' = "new"
  /\ result' = "none"
  /\ ops' = 0
  /\ chunk' = NoChunk
  /\ before' = [pixels |-> << >>, palette |-> << >>, op |-> "new", result |-> "none"]
  /\ UNCHANGED << pc, out, src >>

\* ------------------------------------------------------------------- inputs
Img(w, h, bd, ct, pal, pix) ==
  [width |-> w, height |-> h, bitDepth |-> bd, colorType |-> ct,
   compressionMethod |-> 0, filterMethod |-> 0, interlaceMethod |-> InterlaceNone,
   palette |-> pal, pixels |-> pix]

HasAlpha(ct) == ct \in {GrayscaleWithAlpha, RGBA}

IsGray(ct) == ct \in {Grayscale, GrayscaleWithAlpha}

\* sample quadruples (red, green, blue, alpha) that fit each bit depth
Samples8 == { << 1, 2, 3, 0 >>, << 250, 0, 128, 255 >> }

Samples16 == { << 258, 3, 65535, 0 >>, << 0, 1027, 255, 513 >> }

\* the pixels of color type ct made of those samples
PixelChoices(ct, bd) ==
  { Pixel(t[1],
          IF IsGray(ct) THEN t[1] ELSE t[2],
          IF IsGray(ct) THEN t[1] ELSE t[3],
          IF HasAlpha(ct) THEN t[4] ELSE NoAlpha)
    : t \in IF bd = Bits8 THEN Samples8 ELSE Samples16 }

Dimensions == { d \in (1..MaxPixels) \X (1..MaxPixels) : d[1] * d[2] <= MaxPixels }

\* every image of the palette-free color types at depths 8 and 16
PaletteFreeImages ==
  UNION { UNION { UNION { { Img(d[1], d[2], bd, ct, << >>, pix)
                            : pix \in [1..(d[1] * d[2]) -> PixelChoices(ct, bd)] }
                          : d \in Dimensions }
                  : bd \in {Bits8, Bits16} }
          : ct \in {Grayscale, RGB, GrayscaleWithAlpha, RGBA} }

\* images outside the round-trip contract: a gray pixel with unequal
\* channels, alpha on an RGB pixel, no alpha on an RGBA pixel, an indexed image
OtherImages ==
  { Img(1, 1, Bits8, Grayscale, << >>, << Pixel(1, 2, 3, NoAlpha) >>),
    Img(1, 1, Bits8, RGB, << >>, << Pixel(1, 2, 3, 9) >>),
    Img(1, 1, Bits8, RGBA, << >>, << Pixel(1, 2, 3, NoAlpha) >>),
    Img(1, 2, Bits8, Indexed, << >>, << Pixel(1, 2, 3, NoAlpha), Pixel(4, 5, 6, NoAlpha) >>) }

RoundTripImages == PaletteFreeImages \cup OtherImages

\* indexed images: three colours, two of them alike in red and green, and
\* palettes that are empty, lack a colour, or hold a colour twice
IndexColors ==
  { Pixel(1, 2, 3, NoAlpha), Pixel(4, 5, 6, NoAlpha), Pixel(1, 2, 6, NoAlpha) }

IndexPalettes ==
  { << >>,
    << Pixel(1, 2, 3, NoAlpha) >>,
    << Pixel(1, 2, 3, NoAlpha), Pixel(4, 5, 6, NoAlpha) >>,
    << Pixel(4, 5, 6, NoAlpha), Pixel(1, 2, 3, NoAlpha) >>,
    << Pixel(1, 2, 3, NoAlpha), Pixel(4, 5, 6, NoAlpha), Pixel(1, 2, 3, NoAlpha) >>,
    << Pixel(4, 5, 6, NoAlpha), Pixel(4, 5, 6, NoAlpha), Pixel(1, 2, 6, NoAlpha) >>,
    << Pixel(1, 2, 6, NoAlpha), Pixel(1, 2, 3, NoAlpha), Pixel(4, 5, 6, NoAlpha) >> }

IndexedImages ==
  UNION { UNION { { Img(d[1], d[2], Bits8, Indexed, pal, pix)
                    : pix \in [1..(d[1] * d[2]) -> IndexColors] }
                  : d \in Dimensions }
          : pal \in IndexPalettes }

\* the payload of an IHDR chunk
IHDRData(w, h, bd, ct, cm, fm, im) == U32BE(w) \o U32BE(h) \o << bd, ct, cm, fm, im >>

\* a chunk whose stored CRC is not the CRC of its type and data
BadChunk(type, data) ==
  U32BE(Len(data)) \o type \o data \o U32BE((Crc32(type \o data) + 1) % 8388608)

\* the signature followed by the chunks
Stream(chunks) == Magic \o Concat(chunks)

\* an ancillary tag (tEXt) and a critical tag the decoder does not know (ABCD)
TEXT == << 116, 69, 88, 116 >>
ABCD == << 65, 66, 67, 68 >>
\* a tag whose first byte is a digit (1abc)
ONEABC == << 49, 97, 98, 99 >>

HdrRGB == writeChunk(IHDR, IHDRData(1, 2, Bits8, RGB, 0, 0, 0))
HdrIdx == writeChunk(IHDR, IHDRData(1, 2, Bits8, Indexed, 0, 0, 0))
HdrGray == writeChunk(IHDR, IHDRData(2, 2, Bits8, Grayscale, 0, 0, 0))
HdrGray4 == writeChunk(IHDR, IHDRData(2, 1, Bits4, Grayscale, 0, 0, 0))
HdrAdam7 == writeChunk(IHDR, IHDRData(1, 2, Bits8, RGB, 0, 0, Adam7))
RowsRGB == << 0, 1, 2, 3, 0, 4, 5, 6 >>
DataRGB == writeChunk(IDAT, Deflate(RowsRGB))
DataIdx == writeChunk(IDAT, Deflate(<< 0, 1, 0, 0 >>))
Plte2 == writeChunk(PLTE, << 10, 20, 30, 40, 50, 60 >>)
End == writeChunk(IEND, << >>)
Text == writeChunk(TEXT, << 65, 66 >>)
Crit == writeChunk(ABCD, << >>)

BufRGB == Stream(<< HdrRGB, DataRGB, End >>)
\* gray rows filtered with Sub and Paeth, and with Up and Average
BufSubPaeth == Stream(<< HdrGray, writeChunk(IDAT, Deflate(<< 1, 5, 3, 4, 2, 1 >>)), End >>)
BufUpAverage == Stream(<< HdrGray, writeChunk(IDAT, Deflate(<< 2, 5, 3, 3, 2, 1 >>)), End >>)
BufIdxValid == Stream(<< HdrIdx, Plte2, DataIdx, End >>)
BufIdxNoPlte == Stream(<< HdrIdx, DataIdx, Plte2, End >>)
BufTwoPlte == Stream(<< HdrRGB, Plte2, Plte2, DataRGB, End >>)
BufGrayPlte == Stream(<< HdrGray, Plte2 >>)
BufFirstPLTE == Stream(<< Plte2, HdrRGB, DataRGB, End >>)
BufFirstIDAT == Stream(<< DataRGB, End >>)
BufFirstIEND == Stream(<< End >>)
BufFirstCrit == Stream(<< Crit, HdrRGB >>)
BufFirstText == Stream(<< Text, HdrRGB, DataRGB, End >>)
BufBadIHDR == Stream(<< BadChunk(IHDR, IHDRData(1, 2, Bits8, RGB, 0, 0, 0)), DataRGB, End >>)
BufBadIDAT == Stream(<< HdrRGB, BadChunk(IDAT, Deflate(RowsRGB)), End >>)
BufBadIEND == Stream(<< HdrRGB, DataRGB, BadChunk(IEND, << >>) >>)
BufBadDupIHDR == Stream(<< HdrRGB, BadChunk(IHDR, IHDRData(1, 2, Bits8, RGB, 0, 0, 0)) >>)
BufBadFirstIDAT == Stream(<< BadChunk(IDAT, Deflate(RowsRGB)), End >>)
BufBadText == Stream(<< HdrRGB, BadChunk(TEXT, << 65, 66 >>), DataRGB, End >>)
BufBadGrayPlte == Stream(<< HdrGray, BadChunk(PLTE, << 10, 20, 30 >>) >>)
\* the second scanline carries the filter tag 9
BufBadFilter == Stream(<< HdrRGB, writeChunk(IDAT, Deflate(<< 0, 1, 2, 3, 9, 4, 5, 6 >>)), End >>)
\* the second scanline is one byte short
BufShortRow == Stream(<< HdrRGB, writeChunk(IDAT, Deflate(<< 0, 1, 2, 3, 0, 4, 5 >>)), End >>)
\* one scanline and three scanlines for the height of 2
BufOneRow == Stream(<< HdrRGB, writeChunk(IDAT, Deflate(<< 0, 1, 2, 3 >>)), End >>)
BufThreeRows ==
  Stream(<< HdrRGB, writeChunk(IDAT, Deflate(<< 0, 1, 2, 3, 0, 4, 5, 6, 0, 7, 8, 9 >>)), End >>)
\* the buffer stops inside the IEND chunk
BufTruncated == Sub(BufRGB, 0, Len(BufRGB) - 6)
BufIHDROnly == Stream(<< HdrRGB >>)
BufNoEnd == Stream(<< HdrRGB, DataRGB >>)
BufTrailing == BufRGB \o << 1, 2, 3 >>
\* after IEND: a chunk with a wrong CRC, a PLTE, an IHDR and an IDAT chunk
BufAfterEnd ==
  BufRGB \o BadChunk(IDAT, << 1 >>) \o Plte2 \o HdrRGB \o DataRGB
BufAnc == Stream(<< HdrRGB, Text, DataRGB, End >>)
BufDigit == Stream(<< HdrRGB, writeChunk(ONEABC, << 7 >>), DataRGB, End >>)
BufGray4 == Stream(<< HdrGray4, writeChunk(IDAT, Deflate(<< 0, 18 >>)), End >>)
\* the compressed stream split over two IDAT chunks
BufTwoIDAT ==
  Stream(<< HdrRGB, writeChunk(IDAT, Sub(Deflate(RowsRGB), 0, 4)),
            writeChunk(IDAT, Sub(Deflate(RowsRGB), 4, Len(Deflate(RowsRGB)))), End >>)
BufDupIHDR == Stream(<< HdrRGB, HdrRGB >>)
BufCrit == Stream(<< HdrRGB, Crit >>)
BufPlteLen == Stream(<< HdrRGB, writeChunk(PLTE, << 1, 2, 3, 4 >>) >>)
BufAdam7 == Stream(<< HdrAdam7 >>)
BufInflate == Stream(<< HdrRGB, writeChunk(IDAT, << 1, 2, 3 >>), End >>)
\* the signature and nothing after it
BufSignature == Magic
BufEmpty == << >>
BufShortSig == Sub(Magic, 0, 5)

\* BufRGB with byte k of the signature changed
BufSig(k) == [BufRGB EXCEPT ![k] = IF @ % 2 = 0 THEN @ + 1 ELSE @ - 1]

Buffers ==
  { BufRGB, BufSubPaeth, BufUpAverage, BufIdxValid, BufIdxNoPlte, BufTwoPlte,
    BufGrayPlte, BufFirstPLTE, BufFirstIDAT, BufFirstIEND, BufFirstCrit,
    BufFirstText, BufBadIHDR, BufBadIDAT, BufBadIEND, BufBadDupIHDR,
    BufBadFirstIDAT, BufBadText, BufBadGrayPlte, BufBadFilter, BufShortRow,
    BufOneRow, BufThreeRows,
    BufTruncated, BufIHDROnly, BufNoEnd, BufTrailing, BufAfterEnd, BufAnc, BufDigit, BufGray4,
    BufTwoIDAT, BufDupIHDR, BufCrit, BufPlteLen, BufAdam7, BufInflate,
    BufEmpty, BufShortSig, BufSignature }
  \cup { BufSig(k) : k \in 1..8 }

\* the images a caller configures before encode(): valid ones, and one for
\* each way encode can fail
ImgRGB == Img(1, 2, Bits8, RGB, << >>, << Pixel(1, 2, 3, NoAlpha), Pixel(4, 5, 6, NoAlpha) >>)
ImgRGBA16 == Img(2, 1, Bits16, RGBA, << >>, << Pixel(258, 3, 65535, 0), Pixel(0, 1027, 255, 513) >>)
ImgGrayAlpha == Img(1, 1, Bits8, GrayscaleWithAlpha, << >>, << Pixel(7, 7, 7, 200) >>)
ImgIdx ==
  Img(1, 2, Bits8, Indexed, << >>, << Pixel(1, 2, 3, NoAlpha), Pixel(4, 5, 6, NoAlpha) >>)
ImgIdxMissing ==
  Img(1, 2, Bits8, Indexed, << Pixel(1, 2, 3, NoAlpha) >>,
      << Pixel(1, 2, 3, NoAlpha), Pixel(4, 5, 6, NoAlpha) >>)
ImgBadDepth == [ImgRGB EXCEPT !.bitDepth = 3]
ImgBadType == [ImgRGB EXCEPT !.colorType = 5]
ImgBadPair == [ImgRGB EXCEPT !.bitDepth = Bits4]
ImgBadCompression == [ImgRGB EXCEPT !.compressionMethod = 1]
ImgBadFilter == [ImgRGB EXCEPT !.filterMethod = 1]
ImgAdam7 == [ImgRGB EXCEPT !.interlaceMethod = Adam7]
ImgBadInterlace == [ImgRGB EXCEPT !.interlaceMethod = 2]
ImgGray4 == Img(2, 1, Bits4, Grayscale, << >>, << Pixel(1, 1, 1, NoAlpha), Pixel(2, 2, 2, NoAlpha) >>)
ImgTooFewPixels == [ImgRGB EXCEPT !.height = 3]
ImgSampleTooBig == Img(1, 1, Bits8, RGB, << >>, << Pixel(1, 300, 3, NoAlpha) >>)

Images ==
  { ImgRGB, ImgRGBA16, ImgGrayAlpha, ImgIdx, ImgIdxMissing, ImgBadDepth,
    ImgBadType, ImgBadPair, ImgBadCompression, ImgBadFilter, ImgAdam7,
    ImgBadInterlace, ImgGray4, ImgTooFewPixels, ImgSampleTooBig }

\* chunk streams built from every choice of chunks: the critical types, an
\* ancillary and an unknown critical type with the right CRC, and four of
\* them with a wrong CRC
ChunkBodies ==
  { << IHDR, IHDRData(1, 1, Bits8, RGB, 0, 0, 0) >>,
    << IHDR, IHDRData(1, 1, Bits8, Indexed, 0, 0, 0) >>,
    << IHDR, IHDRData(1, 1, Bits8, Grayscale, 0, 0, 0) >>,
    << PLTE, << 10, 20, 30, 40, 50, 60 >> >>,
    << IDAT, Deflate(<< 0, 1, 2, 3 >>) >>,
    << IEND, << >> >>,
    << TEXT, << 65, 66 >> >>,
    << ABCD, << >> >> }

BadBodies ==
  { << IHDR, IHDRData(1, 1, Bits8, RGB, 0, 0, 0) >>,
    << PLTE, << 10, 20, 30, 40, 50, 60 >> >>,
    << IDAT, Deflate(<< 0, 1, 2, 3 >>) >>,
    << TEXT, << 65, 66 >> >> }

ChunkChoices ==
  { writeChunk(b[1], b[2]) : b \in ChunkBodies } \cup { BadChunk(b[1], b[2]) : b \in BadBodies }

ChunkStreams ==
  UNION { { Stream(cs) : cs \in [1..n -> ChunkChoices] } : n \in 1..MaxChunks }

\* one IHDR chunk for every choice of the five one-byte header fields
HeaderFields ==
  {0, 1, 2, 3, 4, 8, 16} \X {0, 1, 2, 3, 4, 5, 6} \X {0, 1} \X {0, 1} \X {0, 1, 2}

HeaderStreams ==
  { Stream(<< writeChunk(IHDR, IHDRData(1, 1, f[1], f[2], f[3], f[4], f[5])) >>)
    : f \in HeaderFields }

StreamBuffers == ChunkStreams \cup HeaderStreams

\* ---------------------------------------------------------- specifications
\* one object, any calls in any order
Next ==
  \/ \E img \in Images : Configure(img)
  \/ Encode
  \/ \E buffer \in Buffers : ParseFromBuffer(buffer)
  \/ ReadChunk
  \/ ParseReturn

Spec == Init /\ [][Next]_vars

\* encode on one object, decode of the returned buffer on a second one
NextRoundTrip ==
  \/ ops = 0 /\ out = << >> /\ \E img \in RoundTripImages : Configure(img)
  \/ Encode
  \/ New
  \/ ParseFromBuffer(out)
  \/ ReadChunk
  \/ ParseReturn

SpecRoundTrip == Init /\ [][NextRoundTrip]_vars

\* encode of an indexed image, once and again on the same object
NextIndexed ==
  \/ ops = 0 /\ \E img \in IndexedImages : Configure(img)
  \/ Encode

SpecIndexed == Init /\ [][NextIndexed]_vars

\* a new object decoding one generated chunk stream
NextStreams ==
  \/ ops = 0 /\ pc = "idle" /\ \E buffer \in StreamBuffers : ParseFromBuffer(buffer)
  \/ ReadChunk
  \/ ParseReturn

SpecStreams == Init /\ [][NextStreams]_vars

\* ------------------------------------------------- ETC1A4: colour blocks
\* A colour block is 8 bytes read as one little-endian 64-bit word: bits 0..31
\* are bytes 0..3 (the pixel index bits), bits 32..39 byte 4 (flip bit, diff
\* bit, table codewords) and bits 40..63 bytes 5..7 (blue, green, red bases).
\* Decompressed data is kept as a sequence of pixels << red, green, blue,
\* alpha >>: every offset the code computes is a multiple of 4 bytes.
ModifierTables ==
  << << 2, 8, -2, -8 >>,
     << 5, 17, -5, -17 >>,
     << 9, 29, -9, -29 >>,
     << 13, 42, -13, -42 >>,
     << 18, 60, -18, -60 >>,
     << 24, 80, -24, -80 >>,
     << 33, 106, -33, -106 >>,
     << 47, 183, -47, -183 >> >>

subblockLayouts ==
  << << 0, 0, 1, 1,
        0, 0, 1, 1,
        0, 0, 1, 1,
        0, 0, 1, 1 >>,
     << 0, 0, 0, 0,
        0, 0, 0, 0,
        1, 1, 1, 1,
        1, 1, 1, 1 >> >>

\* (x >> n) & mask for a byte x, mask = 2^k - 1
Field(x, n, k) == (x \div (2 ^ n)) % (2 ^ k)

\* x | y of JavaScript for small integers of either sign (two's complement)
RECURSIVE OrBits(_, _, _)
OrBits(x, y, n) ==
  IF n = 0 THEN 0
  ELSE 2 * OrBits(x \div 2, y \div 2, n - 1) + (IF x % 2 = 1 \/ y % 2 = 1 THEN 1 ELSE 0)

BitOr(x, y) ==
  LET r == OrBits(x % 4096, y % 4096, 12) IN IF r >= 2048 THEN r - 4096 ELSE r

\* a delta field read as an unsigned number
twosComplement_Unsigned(bits) == bits

twosComplement(bits) == IF Field(bits, 2, 1) = 1 THEN bits - 8 ELSE bits

\* a clamp without the upper limit
clampTo255_NoUpper(input) == Max(input, 0)

clampTo255(input) == Min(Max(input, 0), 255)

buildColorTable(modifierTable, red, green, blue) ==
  [k \in 1..4 |-> << clampTo255(red + modifierTable[k]),
                     clampTo255(green + modifierTable[k]),
                     clampTo255(blue + modifierTable[k]) >>]

\* bit n of the 32 pixel index bits, held as bytes 0..3 of the block
IndexBit(pixelIndexBits, n) == Field(pixelIndexBits[n \div 8 + 1], n % 8, 1)

modifierIndex(pixelIndexBits, offset) ==
  LET msb == IndexBit(pixelIndexBits, offset)
      lsb == IndexBit(pixelIndexBits, 16 + offset)
  IN BitOr(msb, lsb * 2)

\* (v << 3) | (v >> 2) and (v << 4) | v
Extend5(v) == BitOr(v * 8, v \div 4)

Extend4(v) == BitOr(v * 16, v)

\* the two base colours of a block, extended to 8 bits
BaseColors(block_) ==
  LET diffBit == Field(block_[5], 1, 1) IN
  IF diffBit = 1
  THEN LET r1 == Field(block_[8], 3, 5)
           g1 == Field(block_[7], 3, 5)
           b1 == Field(block_[6], 3, 5)
           r2 == r1 + twosComplement(Field(block_[8], 0, 3))
           g2 == g1 + twosComplement(Field(block_[7], 0, 3))
           b2 == b1 + twosComplement(Field(block_[6], 0, 3))
       IN << << Extend5(r1), Extend5(g1), Extend5(b1) >>,
             << Extend5(r2), Extend5(g2), Extend5(b2) >> >>
  ELSE << << Extend4(Field(block_[8], 4, 4)), Extend4(Field(block_[7], 4, 4)),
             Extend4(Field(block_[6], 4, 4)) >>,
          << Extend4(Field(block_[8], 0, 4)), Extend4(Field(block_[7], 0, 4)),
             Extend4(Field(block_[6], 0, 4)) >> >>

\* decompressColorBlock: 16 pixels in row order with alpha 0xFF, or the
\* RangeError of readBigUInt64LE on a block of fewer than 8 bytes
decompressColorBlock(block_) ==
  IF Len(block_) < 8 THEN [err |-> "RangeError", decompressed |-> << >>]
  ELSE LET flipBit == Field(block_[5], 0, 1)
           tableCodeword1 == Field(block_[5], 5, 3)
           tableCodeword2 == Field(block_[5], 2, 3)
           pixelIndexBits == SubSeq(block_, 1, 4)
           base == BaseColors(block_)
           colorTables ==
             << buildColorTable(ModifierTables[tableCodeword1 + 1],
                                base[1][1], base[1][2], base[1][3]),
                buildColorTable(ModifierTables[tableCodeword2 + 1],
                                base[2][1], base[2][2], base[2][3]) >>
           layout == subblockLayouts[flipBit + 1]
           \* pixel j of row i: i * 4 + j of the output, index bits at i + 4j
           pixel(i, j) ==
             colorTables[layout[i * 4 + j + 1] + 1][modifierIndex(pixelIndexBits, i + 4 * j) + 1]
       IN [err |-> "ok",
           decompressed |-> [k \in 1..16 |->
                               pixel((k - 1) \div 4, (k - 1) % 4) \o << 255 >>]]

\* --------------------------------------------------- ETC1A4: tile order
\* one turn of the loop of getTileScrambledOrder
tileStep(s, blocksPerRow) ==
  LET a == IF s.tile % blocksPerRow = 0 /\ s.tile > 0
           THEN IF s.rowAccumulator < 1
                THEN [s EXCEPT !.rowAccumulator = @ + 1,
                               !.rowNumber = @ + 2,
                               !.baseNumber = s.rowNumber + 2]
                ELSE [s EXCEPT !.rowAccumulator = 0,
                               !.baseNumber = @ - 2,
                               !.rowNumber = s.baseNumber - 2]
           ELSE s
      b == [a EXCEPT !.orderTable = Append(@, a.baseNumber)]
  IN IF b.baseAccumulator < 1
     THEN [b EXCEPT !.baseAccumulator = @ + 1, !.baseNumber = @ + 1, !.tile = @ + 1]
     ELSE [b EXCEPT !.baseAccumulator = 0, !.baseNumber = @ + 3, !.tile = @ + 1]

\* the loop from the locals s on; each turn's locals are computed once
RECURSIVE TileLoop(_, _, _)
TileLoop(s, blocksPerRow, length) ==
  IF s.tile >= length THEN s.orderTable
  ELSE CHOOSE orderTable \in { TileLoop(t, blocksPerRow, length) :
                                 t \in { tileStep(s, blocksPerRow) } } : TRUE

getTileScrambledOrder(blocksPerRow, blocksPerColumn) ==
  TileLoop(TileStart, blocksPerRow, blocksPerRow * blocksPerColumn)

\* ------------------------------------------------ ETC1A4: decompression
\* Buffer.alloc(n * 4), as n pixels of four zero bytes
ZeroPixels(n) == [p \in 1..n |-> << 0, 0, 0, 0 >>]

\* the alpha taken from the nibbles counted along the rows of the block
alphaOf_RowMajor(alphaBlock, pixelX, pixelY) ==
  LET alphaIndex == (pixelY * 4 + pixelX) \div 2
      alphaByte == At(alphaBlock, alphaIndex)
      shift == (pixelX % 2) * 4
      alpha == IF alphaByte = NaN THEN 0 ELSE (alphaByte \div (2 ^ shift)) % 16
  IN alpha + alpha * 16

\* the alpha of the pixel at pixelX, pixelY of a block: one nibble of
\* alphaBlock, doubled to a byte
alphaOf(alphaBlock, pixelX, pixelY) ==
  LET alphaIndex == (pixelX * 4 + pixelY) \div 2
      alphaByte == At(alphaBlock, alphaIndex)
      shift == (pixelY % 2) * 4
      alpha == IF alphaByte = NaN THEN 0 ELSE (alphaByte \div (2 ^ shift)) % 16
  IN alpha + alpha * 16

\* the alpha block and the colour block that decompress cuts out of the
\* bytes of one readBytes(blockSize)
splitBlock(blockData, hasAlpha) ==
  IF hasAlpha
  THEN [alphaBlock |-> Sub(blockData, 0, 8), colorBlock |-> Sub(blockData, 8, Len(blockData))]
  ELSE [alphaBlock |-> << 255, 255, 255, 255, 255, 255, 255, 255 >>, colorBlock |-> blockData]

\* the pixel index (byte index / 4) decompress writes the pixel at pixelX,
\* pixelY of the block at blockX, blockY to
decompressedPixelIndex(blockX, blockY, pixelX, pixelY, width_) ==
  (blockX * 4 + pixelX) + ((blockY * 4 + pixelY) * width_)

\* `decompressed` after the sixteen stores of one block; a store past the
\* end of a Buffer does nothing
storeBlock(decompressed, blockX, blockY, width_, alphaBlock, decompressedColorBlock) ==
  [p \in 1..Len(decompressed) |->
     LET first == decompressedPixelIndex(blockX, blockY, 0, 0, width_)
         hits == IF p - 1 < first \/ p - 1 > first + 3 * width_ + 3 THEN {}
                 ELSE { xy \in (0..3) \X (0..3) :
                          decompressedPixelIndex(blockX, blockY, xy[1], xy[2], width_) = p - 1 }
     IN IF hits = {} THEN decompressed[p]
        ELSE LET xy == CHOOSE h \in hits : TRUE
                 color == decompressedColorBlock[xy[1] + xy[2] * 4 + 1]
             IN << color[1], color[2], color[3], alphaOf(alphaBlock, xy[1], xy[2]) >>]

\* what decompress makes of the bytes of its k-th readBytes(blockSize): the
\* alpha block and the decoded colour block
blockOf(buffer, k, blockSize, hasAlpha) ==
  CHOOSE b \in
    { [alphaBlock |-> parts.alphaBlock, color |-> decompressColorBlock(parts.colorBlock)] :
        parts \in { splitBlock(Sub(buffer, k * blockSize, (k + 1) * blockSize), hasAlpha) } }
    : TRUE

\* the loop of decompress from its k-th block on: blockY counts to
\* blocksPerRow and blockX to blocksPerColumn.  b is the block read and
\* stored is `decompressed` after its sixteen stores.
RECURSIVE decompressFrom(_, _, _, _, _, _, _, _)
decompressFrom(k, decompressed, buffer, blockSize, hasAlpha, width_, blocksPerRow, blocksPerColumn) ==
  IF k >= blocksPerRow * blocksPerColumn
  THEN [err |-> "ok", decompressed |-> decompressed, pos |-> k * blockSize]
  ELSE CHOOSE r \in
         { IF b.color.err # "ok"
           THEN [err |-> b.color.err, decompressed |-> decompressed,
                 pos |-> (k + 1) * blockSize]
           ELSE CHOOSE rest \in
                  { decompressFrom(k + 1, stored, buffer, blockSize, hasAlpha, width_,
                                   blocksPerRow, blocksPerColumn) :
                      stored \in { storeBlock(decompressed, k % blocksPerColumn,
                                              k \div blocksPerColumn, width_,
                                              b.alphaBlock, b.color.decompressed) } } : TRUE
           : b \in { blockOf(buffer, k, blockSize, hasAlpha) } } : TRUE

\* decompress() of an object with this width and height and this buffer in
\* its readStream; width and height are multiples of 4 here, for which
\* imageSize / (blocksPerRow * blocksPerColumn) is a whole number
decompress(width_, height_, buffer) ==
  LET blocksPerRow == width_ \div 4
      blocksPerColumn == height_ \div 4
      imageSize == width_ * height_
      blockSize == imageSize \div (blocksPerRow * blocksPerColumn)
      hasAlpha == blockSize = 16
  IN CHOOSE d \in
       { [err |-> r.err, decompressed |-> r.decompressed, pos |-> r.pos,
          hasAlpha |-> hasAlpha, blocksPerRow |-> blocksPerRow,
          blocksPerColumn |-> blocksPerColumn] :
           r \in { CHOOSE loop \in
                     { decompressFrom(0, zeros, buffer, blockSize, hasAlpha, width_,
                                      blocksPerRow, blocksPerColumn) :
                         zeros \in { ZeroPixels(imageSize) } } : TRUE } } : TRUE

\* a fill that reads where descramble writes and writes where it reads
fillOf_Swapped(n, orderTable, width_, blocksPerRow, blocksPerColumn, length) ==
  LET i == n \div 16
      y == (n % 16) \div 4
      x == n % 4
      tileY == i \div blocksPerColumn
      tileX == i % blocksPerColumn
      TX == orderTable[i + 1] % blocksPerRow
      TY == (orderTable[i + 1] - TX) \div blocksPerRow
      dataOffset == (tileX * 4) + x + ((tileY * 4 + y) * width_)
      outputOffset == (TX * 4) + x + ((TY * 4 + y) * width_)
  IN [dataOffset |-> dataOffset, outputOffset |-> outputOffset,
      err |-> IF outputOffset + 1 > length THEN "RangeError"
              ELSE IF dataOffset >= length THEN "ERR_INVALID_ARG_VALUE"
              ELSE "ok"]

\* the n-th fill of descramble, n counting tiles, then y, then x: where it
\* reads, where it writes, and how Buffer.fill takes it: an end past the
\* buffer is a RangeError, an empty value an ERR_INVALID_ARG_VALUE
fillOf(n, orderTable, width_, blocksPerRow, blocksPerColumn, length) ==
  LET i == n \div 16
      y == (n % 16) \div 4
      x == n % 4
      tileY == i \div blocksPerColumn
      tileX == i % blocksPerColumn
      TX == orderTable[i + 1] % blocksPerRow
      TY == (orderTable[i + 1] - TX) \div blocksPerRow
      dataOffset == (TX * 4) + x + ((TY * 4 + y) * width_)
      outputOffset == (tileX * 4) + x + ((tileY * 4 + y) * width_)
  IN [dataOffset |-> dataOffset, outputOffset |-> outputOffset,
      err |-> IF outputOffset + 1 > length THEN "RangeError"
              ELSE IF dataOffset >= length THEN "ERR_INVALID_ARG_VALUE"
              ELSE "ok"]

\* `descrambled` after the fills of descramble, fills[n] being the n-th: the
\* first fill that throws ends the call
descrambleBy(fills, scrambled) ==
  LET failed == { n \in DOMAIN fills : fills[n].err # "ok" } IN
  IF failed # {}
  THEN [err |-> fills[CHOOSE n \in failed : \A m \in failed : n <= m].err,
        descrambled |-> << >>]
  ELSE [err |-> "ok",
        descrambled |->
          [p \in 1..Len(scrambled) |->
             LET hits == { n \in DOMAIN fills : fills[n].outputOffset = p - 1 }
             IN IF hits = {} THEN << 0, 0, 0, 0 >>
                ELSE scrambled[fills[CHOOSE n \in hits : \A m \in hits : m <= n].dataOffset + 1]]]

\* descramble(scrambled) of an object with these fields
descramble(scrambled, width_, blocksPerRow, blocksPerColumn) ==
  CHOOSE r \in
    { descrambleBy(fills, scrambled) :
        fills \in
          { [n \in 0..(16 * blocksPerRow * blocksPerColumn - 1) |->
               fillOf(n, orderTable, width_, blocksPerRow, blocksPerColumn, Len(scrambled))] :
              orderTable \in { getTileScrambledOrder(blocksPerRow, blocksPerColumn) } } }
    : TRUE

\* the object after parseFromBuffer(buffer).  Buffer.alloc of a size that
\* is not a number throws a RangeError, after blocksPerRow and
\* blocksPerColumn are assigned and before hasAlpha is.  d is what
\* decompress returns and leaves, s what descramble returns.
parseETC1A4(e, buffer) ==
  IF e.width = Undef \/ e.height = Undef
  THEN [e EXCEPT !.buffer = buffer, !.pos = 0, !.pixels = << >>,
                 !.blocksPerRow = IF e.width = Undef THEN NaN ELSE e.width \div 4,
                 !.blocksPerColumn = IF e.height = Undef THEN NaN ELSE e.height \div 4,
                 !.result = "RangeError", !.ops = @ + 1]
  ELSE CHOOSE after \in
         { CHOOSE withPixels \in
             { [e EXCEPT !.buffer = buffer, !.pos = d.pos,
                         !.pixels = IF s.err = "ok" THEN s.descrambled ELSE << >>,
                         !.hasAlpha = d.hasAlpha, !.blocksPerRow = d.blocksPerRow,
                         !.blocksPerColumn = d.blocksPerColumn,
                         !.result = s.err, !.ops = @ + 1] :
                 s \in { IF d.err = "ok"
                         THEN descramble(d.decompressed, e.width, d.blocksPerRow,
                                         d.blocksPerColumn)
                         ELSE [err |-> d.err, descrambled |-> << >>] } } : TRUE
           : d \in { decompress(e.width, e.height, buffer) } } : TRUE

\* ---------------------------------------------------------------- RGB565A4
\* getZFromXY(x, y) for x and y in 0..7: the bits of x at the even places
\* and the bits of y at the odd ones
getZFromXY(x, y) ==
  (x % 2) + 4 * ((x \div 2) % 2) + 16 * ((x \div 4) % 2)
  + 2 * (y % 2) + 8 * ((y \div 2) % 2) + 32 * ((y \div 4) % 2)

\* the index i of the pixel at x, y.  The heights here are at most 8, so
\* tileY is 0 and the quotient width / 8 does not count.
rgbIndex(x, y, width_) ==
  LET tileX == x \div 8
      tileY == y \div 8
      z == getZFromXY(x % 8, y % 8)
      tileIndex == tileY * (width_ \div 8) + tileX
  IN z + tileIndex * 64

\* the pixel parseFromBuffer makes of index i; a byte read past the end of
\* alphaData is undefined and gives alpha 0
rgbPixel(pixelData, alphaData, i) ==
  LET color == pixelData[i * 2 + 1] + 256 * pixelData[i * 2 + 2]
      alphaByte == At(alphaData, i \div 2)
  IN [red |-> (color \div 2048) * 8,
      green |-> ((color \div 32) % 64) * 4,
      blue |-> (color % 32) * 8,
      alpha |-> IF alphaData = NoAlphaData THEN 255
                ELSE IF alphaByte = NaN THEN 0
                ELSE ((alphaByte \div (2 ^ ((i % 2) * 4))) % 16) * 17]

\* the loops of parseFromBuffer over pixelData and alphaData: the pixels
\* pushed, up to the first readUint16LE past the end of pixelData
rgbLoop(width_, height_, pixelData, alphaData) ==
  IF width_ = Undef \/ height_ = Undef THEN [err |-> "ok", pushed |-> << >>]
  ELSE LET i(n) == rgbIndex(n % width_, n \div width_, width_)
           failed == { n \in 0..(width_ * height_ - 1) : i(n) * 2 + 2 > Len(pixelData) }
           count == IF failed = {} THEN width_ * height_
                    ELSE CHOOSE n \in failed : \A m \in failed : n <= m
       IN [err |-> IF failed = {} THEN "ok" ELSE "RangeError",
           pushed |-> [n \in 1..count |-> rgbPixel(pixelData, alphaData, i(n - 1))]]

\* the object after parseFromBuffer(pixelData, alphaData); a comparison with
\* the NaN of an undefined width or height is false
parseRGB565A4(e, pixelData, alphaData) ==
  LET known == e.width # Undef /\ e.height # Undef
      expectedPixelDataSize == (e.width * e.height) * 2
      expectedAlphaDataSize == (e.width * e.height + 1) \div 2
      called == [e EXCEPT !.pixelData = pixelData, !.alphaData = alphaData,
                          !.before = Len(e.pixels), !.op = "parse", !.ops = @ + 1]
  IN IF known /\ Len(pixelData) > expectedPixelDataSize
     THEN [called EXCEPT !.result = "NotEnoughData"]
     ELSE IF Len(pixelData) % 2 # 0
     THEN [called EXCEPT !.result = "NotModuleOf2"]
     ELSE IF alphaData # NoAlphaData /\ (~known \/ Len(alphaData) # expectedAlphaDataSize)
     THEN [called EXCEPT !.result = "BadAlphaData"]
     ELSE LET both == known /\ Len(pixelData) = expectedPixelDataSize + expectedAlphaDataSize
              pixelData2 == IF both THEN Sub(pixelData, 0, expectedPixelDataSize)
                            ELSE pixelData
              alphaData2 == IF both THEN Sub(pixelData2, expectedPixelDataSize, Len(pixelData2))
                            ELSE alphaData
              r == rgbLoop(e.width, e.height, pixelData2, alphaData2)
          IN [called EXCEPT !.pixels = @ \o r.pushed, !.result = r.err]

\* the two bytes encode writes for a pixel, low byte first
rgbColor(pixel) ==
  LET color == (pixel.red \div 8) * 2048 + (pixel.green \div 4) * 32 + (pixel.blue \div 8)
  IN << color % 256, color \div 256 >>

\* the object after encode(): out is what it returns.  Buffer.alloc of a size
\* that is not a number throws a RangeError, a missing pixel a TypeError, a
\* writeUInt16LE past the end of pixelData a RangeError.
encodeRGB565A4(e) ==
  LET called == [e EXCEPT !.before = Len(e.pixels), !.op = "encode", !.ops = @ + 1,
                          !.out = NoBuffers]
  IN IF e.width = Undef \/ e.height = Undef THEN [called EXCEPT !.result = "RangeError"]
     ELSE LET size == e.width * e.height
              i(n) == rgbIndex(n % e.width, n \div e.width, e.width)
              missing == { n \in 0..(size - 1) : n >= Len(e.pixels) }
              outside == { n \in 0..(size - 1) : i(n) * 2 + 2 > size * 2 }
              failed == missing \cup outside
              first == CHOOSE n \in failed : \A m \in failed : n <= m
              at(j) == CHOOSE n \in 0..(size - 1) : i(n) = j
              nibble(j) == IF \E n \in 0..(size - 1) : i(n) = j
                           THEN e.pixels[at(j) + 1].alpha \div 16 ELSE 0
          IN IF failed # {}
             THEN [called EXCEPT !.result = IF first \in missing THEN "TypeError"
                                            ELSE "RangeError"]
             ELSE [called EXCEPT
                     !.result = "ok",
                     !.out = [pixelData |->
                                [k \in 1..(size * 2) |->
                                   rgbColor(e.pixels[at((k - 1) \div 2) + 1])[((k - 1) % 2) + 1]],
                              alphaData |->
                                [k \in 1..((size + 1) \div 2) |->
                                   nibble(2 * (k - 1)) + 16 * nibble(2 * (k - 1) + 1)]]]

\* ------------------------------------------------- scanlines and filters
\* one scanline, filtered by the forward filter of the PNG standard and handed
\* to the unfilter function of its filter type
MaxRow == 3

FilterBytes == {0, 1, 128, 255}

PixelSizes == {1, 2, 3}

Rows == [1..MaxRow -> FilterBytes]

FilterInputs ==
  [kind : {FilterSub, FilterUp, FilterAverage, FilterPaeth},
   pixelSize : PixelSizes,
   row : Rows,
   prev : {NoRow} \cup { [has |-> TRUE, buf |-> r] : r \in Rows }]

\* the forward filters of the PNG standard (section 9.2): each byte minus the
\* prediction made from the raw bytes to the left, above and upper left
RefPaeth(a, b, c) ==
  LET p == a + b - c
      pa == IF p >= a THEN p - a ELSE a - p
      pb == IF p >= b THEN p - b ELSE b - p
      pc_ == IF p >= c THEN p - c ELSE c - p
  IN IF pa <= pb /\ pa <= pc_ THEN a ELSE IF pb <= pc_ THEN b ELSE c

RefPrediction(kind, row, prev, bpp, k) ==
  LET a == IF k > bpp THEN row[k - bpp] ELSE 0
      b == IF prev.has THEN prev.buf[k] ELSE 0
      c == IF prev.has /\ k > bpp THEN prev.buf[k - bpp] ELSE 0
  IN CASE kind = FilterSub -> a
       [] kind = FilterUp -> b
       [] kind = FilterAverage -> (a + b) \div 2
       [] kind = FilterPaeth -> RefPaeth(a, b, c)

RefFilter(kind, row, prev, bpp) ==
  [k \in 1..Len(row) |-> (row[k] - RefPrediction(kind, row, prev, bpp, k)) % 256]

InitFilters ==
  /\ Idle
  /\ OthersIdle("filt")
  /\ filt \in { [NoFilt EXCEPT !.pc = "input", !.kind = i.kind, !.pixelSize = i.pixelSize,
                                !.row = i.row, !.prev = i.prev] : i \in FilterInputs }

\* the encoder side: the scanline goes through the forward filter
ForwardFilter ==
  /\ filt.pc = "input"
  /\ filt' = [filt EXCEPT !.pc = "filtered",
                          !.filtered = RefFilter(filt.kind, filt.row, filt.prev, filt.pixelSize)]
  /\ UNCHANGED allButFilt

\* processSampleData's switch: the unfilter function of the filter type
UnfilterScanline ==
  /\ filt.pc = "filtered"
  /\ filt' = [filt EXCEPT !.pc = "done",
                          !.unfiltered = Unfilter(filt.kind, filt.filtered, filt.prev,
                                                  8 * filt.pixelSize)]
  /\ UNCHANGED allButFilt

NextFilters == ForwardFilter \/ UnfilterScanline

SpecFilters == InitFilters /\ [][NextFilters]_vars

\* ------------------------------------------------------ the Paeth predictor
\* byte values low, high and around the middle
PaethBytes == (0..15) \cup {100, 127, 128, 129, 200} \cup (240..255)

InitPaeth ==
  /\ Idle
  /\ OthersIdle("paeth")
  /\ paeth \in { [NoPaeth EXCEPT !.pc = "input", !.a = t[1], !.b = t[2], !.c = t[3]]
                  : t \in PaethBytes \X PaethBytes \X PaethBytes }

\* paethPredictor(a, b, c)
Predict ==
  /\ paeth.pc = "input"
  /\ paeth' = [paeth EXCEPT !.pc = "done",
                            !.prediction = paethPredictor(paeth.a, paeth.b, paeth.c)]
  /\ UNCHANGED allButPaeth

NextPaeth == Predict

SpecPaeth == InitPaeth /\ [][NextPaeth]_vars

\* -------------------------------------------------- ETC1A4 colour blocks
\* a block in individual mode, table codewords 0, index bits 0, both
\* sub-blocks of base colour (r, g, b)
SolidBlock(r, g, b, flip) == << 0, 0, 0, 0, flip, 17 * b, 17 * g, 17 * r >>

SolidBlocks ==
  { SolidBlock(c[1], c[2], c[3], flip) : c \in (0..15) \X (0..15) \X (0..15), flip \in {0, 1} }

\* blocks with two base colours, other codewords and index bits, in
\* individual and in differential mode, and a block cut short
MixedBlocks ==
  { << 27, 228, 141, 114, t, 37, 154, 240 >> : t \in {60, 61, 62, 63, 0, 2, 136, 255} }
  \cup { << 255, 255, 0, 0, 0, 17, 34, 51 >>, << 0, 0, 255, 255, 1, 17, 34, 51 >>,
          << 1, 2, 3, 4, 2, 4, 252, 7 >>, << 0, 0, 0, 0, 0, 17, 34 >> }

\* a block in differential mode: 5-bit components and 3-bit delta fields,
\* modifier table 0 for both sub-blocks
DiffBlock(r, dr, g, dg, b, db) ==
  << 0, 0, 0, 0, 2, b * 8 + db, g * 8 + dg, r * 8 + dr >>

\* every 5-bit component with every delta field, in each of the components
DiffBlocks ==
  { DiffBlock(c, d, (c + 7) % 32, (d + 3) % 8, (c + 13) % 32, (d + 5) % 8) :
      c \in 0..31, d \in 0..7 }

ColorBlocks == SolidBlocks \cup MixedBlocks \cup DiffBlocks

InitBlocks ==
  /\ Idle
  /\ OthersIdle("block")
  /\ block \in { [NoBlock EXCEPT !.pc = "input", !.data = d] : d \in ColorBlocks }

\* decompressColorBlock(block)
DecompressColorBlock ==
  /\ block.pc = "input"
  /\ LET r == decompressColorBlock(block.data) IN
       block' = [block EXCEPT !.pc = "done", !.err = r.err,
                              !.base = IF r.err = "ok" THEN BaseColors(block.data)
                                       ELSE << >>,
                              !.decompressed = r.decompressed]
  /\ UNCHANGED allButBlock

NextBlocks == DecompressColorBlock

SpecBlocks == InitBlocks /\ [][NextBlocks]_vars

\* ----------------------------------------------------- ETC1A4 tile order
\* widths and heights: the multiples of 4 up to 4 * MaxSide
MaxSide == 4

TileSizes == { 4 * k : k \in 1..MaxSide }

InitOrder ==
  /\ Idle
  /\ OthersIdle("order")
  /\ order \in { [NoOrder EXCEPT !.pc = "input", !.width = w, !.height = h]
                  : w \in TileSizes, h \in TileSizes }

\* decompress sets blocksPerRow and blocksPerColumn; descramble calls
\* getTileScrambledOrder
OrderStart ==
  /\ order.pc = "input"
  /\ order' = [order EXCEPT !.pc = "loop",
                            !.blocksPerRow = order.width \div 4,
                            !.blocksPerColumn = order.height \div 4]
  /\ UNCHANGED allButOrder

\* one turn of the loop over the tiles
OrderStep ==
  /\ order.pc = "loop"
  /\ order.s.tile < order.blocksPerRow * order.blocksPerColumn
  /\ order' = [order EXCEPT !.s = tileStep(order.s, order.blocksPerRow)]
  /\ UNCHANGED allButOrder

\* return orderTable
OrderReturn ==
  /\ order.pc = "loop"
  /\ order.s.tile >= order.blocksPerRow * order.blocksPerColumn
  /\ order' = [order EXCEPT !.pc = "done"]
  /\ UNCHANGED allButOrder

NextOrder == OrderStart \/ OrderStep \/ OrderReturn

SpecOrder == InitOrder /\ [][NextOrder]_vars

\* --------------------------------------------------------- ETC1A4 object
\* assignments and calls on one object
MaxEtcOps == 3

\* widths and heights: the multiples of 4 up to 4 * MaxBlocksPerSide
MaxBlocksPerSide == 2

EtcSizes == { 4 * k : k \in 1..MaxBlocksPerSide }

\* alpha blocks: opaque, clear, and the sixteen nibbles 0 .. 15
SampleAlphas ==
  << << 255, 255, 255, 255, 255, 255, 255, 255 >>,
     << 16, 50, 84, 118, 152, 186, 220, 254 >>,
     << 0, 0, 0, 0, 0, 0, 0, 0 >> >>

\* colour blocks: a solid one, a differential one, an individual one
SampleColors ==
  << << 0, 0, 0, 0, 0, 17, 34, 51 >>,
     << 27, 228, 141, 114, 62, 37, 154, 240 >>,
     << 255, 255, 0, 0, 1, 17, 34, 51 >> >>

\* a file of `length` bytes made of 16-byte blocks, alpha block first
AlphaFile(length) ==
  [i \in 1..length |->
     LET blk == (i - 1) \div 8
         pick == ((blk \div 2) % 3) + 1
     IN IF blk % 2 = 0 THEN SampleAlphas[pick][((i - 1) % 8) + 1]
        ELSE SampleColors[pick][((i - 1) % 8) + 1]]

\* a file of `length` bytes made of 8-byte colour blocks
ColorFile(length) ==
  [i \in 1..length |-> SampleColors[(((i - 1) \div 8) % 3) + 1][((i - 1) % 8) + 1]]

\* the numbers of blocks of the files: those of the 4x4, the 4x8 or 8x4 and
\* the 8x8 image
BlockCounts == {1, 2, 4}

\* files of 16-byte blocks of the length of an image, one byte shorter and
\* one byte longer, files of 8-byte blocks of the length of an image, and
\* the empty file
EtcBuffers ==
  { AlphaFile(16 * n + extra) : n \in BlockCounts, extra \in {-1, 0, 1} }
  \cup { ColorFile(8 * n) : n \in BlockCounts }
  \cup { << >> }

InitEtc ==
  /\ Idle
  /\ OthersIdle("etc")
  /\ etc = NewETC1A4

\* etc1a4.width = w
SetWidth(w) ==
  /\ etc.ops < MaxEtcOps
  /\ etc' = [etc EXCEPT !.width = w, !.ops = @ + 1]
  /\ UNCHANGED allButEtc

\* etc1a4.height = h
SetHeight(h) ==
  /\ etc.ops < MaxEtcOps
  /\ etc' = [etc EXCEPT !.height = h, !.ops = @ + 1]
  /\ UNCHANGED allButEtc

\* etc1a4.parseFromBuffer(buffer)
ParseFromBufferETC1A4(buffer) ==
  /\ etc.ops < MaxEtcOps
  /\ etc' = parseETC1A4(etc, buffer)
  /\ UNCHANGED allButEtc

NextEtc ==
  \/ \E w \in EtcSizes : SetWidth(w)
  \/ \E h \in EtcSizes : SetHeight(h)
  \/ \E buffer \in EtcBuffers : ParseFromBufferETC1A4(buffer)

SpecEtc == InitEtc /\ [][NextEtc]_vars

\* --------------------------------------------------------------- StreamOut
\* Buffer.writeUint16LE, writeUint32LE and writeInt32LE: low byte first
U16LE(n) == << n % 256, (n \div 256) % 256 >>

U32LE(n) ==
  << n % 256, (n \div 256) % 256, (n \div 65536) % 256, (n \div 16777216) % 256 >>

\* new StreamOut(size)
NewStreamOut(size) ==
  [NoStream EXCEPT !.buffer = [i \in 1..size |-> 0], !.made = TRUE]

\* grow(length): a zeroed buffer of that length with the old bytes copied in
grow(s, length) ==
  CHOOSE grown \in
    { [t EXCEPT !.buffer = [i \in 1..n |-> IF i <= Len(t.buffer) THEN t.buffer[i] ELSE 0]] :
        t \in {s}, n \in {length} } : TRUE

\* ensureCapacity(length)
ensureCapacity(s, length) ==
  CHOOSE ensured \in
    { IF t.pos + length > Len(t.buffer)
      THEN grow(t, Max(t.pos + length, (Len(t.buffer) * 3) \div 2))
      ELSE t : t \in {s} } : TRUE

\* the bytes put at pos into a buffer that has the room, and pos moved past
\* them: bytes.copy(buffer, pos) or buffer.writeUintN(value, pos), then
\* pos += length
putBytes(s, bytes) ==
  CHOOSE put \in
    { [t EXCEPT !.buffer = [i \in 1..Len(t.buffer) |->
                              IF i > t.pos /\ i <= t.pos + Len(b)
                              THEN b[i - t.pos] ELSE t.buffer[i]],
                !.pos = t.pos + Len(b)] : t \in {s}, b \in {bytes} } : TRUE

\* bytes(): the buffer up to the cursor
bytesOf(s) == Sub(s.buffer, 0, s.pos)

\* size(): the capacity
sizeOf(s) == Len(s.buffer)

\* skip(length)
skip(s, length) == putBytes(ensureCapacity(s, length), [i \in 1..length |-> 0])

\* seek(pos)
seek(s, pos) == [s EXCEPT !.pos = pos]

\* writeBytes(bytes)
writeBytes(s, bytes) == putBytes(ensureCapacity(s, Len(bytes)), bytes)

writeUint8(s, uint8) == putBytes(ensureCapacity(s, 1), << uint8 >>)

writeUint16LE(s, uint16) == putBytes(ensureCapacity(s, 2), U16LE(uint16))

writeUint32LE(s, uint32) == putBytes(ensureCapacity(s, 4), U32LE(uint32))

writeInt32LE(s, int32) == putBytes(ensureCapacity(s, 4), U32LE(int32))

writeUint16BE(s, uint16) == putBytes(ensureCapacity(s, 2), U16BE(uint16))

writeUint32BE(s, uint32) == putBytes(ensureCapacity(s, 4), U32BE(uint32))

\* -------------------------------------------------------- StreamOut object
\* calls made on one StreamOut
MaxStreamOps == 3

\* the record of what was written: written[p + 1] is the byte last written
\* at position p, Undef where a seek left a gap, and its length is the
\* highest position written so far
Written(s, prior, length) ==
  [s EXCEPT !.written =
              IF length = 0 THEN s.written
              ELSE [i \in 1..Max(Len(s.written), prior.pos + length) |->
                      IF i > prior.pos /\ i <= prior.pos + length THEN s.buffer[i]
                      ELSE IF i <= Len(s.written) THEN s.written[i] ELSE Undef],
            !.returned = NotReturned,
            !.ops = s.ops + 1]

InitStream ==
  /\ Idle
  /\ OthersIdle("stream")
  /\ stream = NoStream

Construct(size) ==
  /\ ~stream.made
  /\ stream' = NewStreamOut(size)
  /\ UNCHANGED allButStream

\* a call can be made
Callable == stream.made /\ stream.ops < MaxStreamOps

WriteBytes(bytes) ==
  /\ Callable
  /\ stream' = Written(writeBytes(stream, bytes), stream, Len(bytes))
  /\ UNCHANGED allButStream

WriteUint8(uint8) ==
  /\ Callable
  /\ stream' = Written(writeUint8(stream, uint8), stream, 1)
  /\ UNCHANGED allButStream

WriteUint16LE(uint16) ==
  /\ Callable
  /\ stream' = Written(writeUint16LE(stream, uint16), stream, 2)
  /\ UNCHANGED allButStream

WriteUint32LE(uint32) ==
  /\ Callable
  /\ stream' = Written(writeUint32LE(stream, uint32), stream, 4)
  /\ UNCHANGED allButStream

WriteInt32LE(int32) ==
  /\ Callable
  /\ stream' = Written(writeInt32LE(stream, int32), stream, 4)
  /\ UNCHANGED allButStream

WriteUint16BE(uint16) ==
  /\ Callable
  /\ stream' = Written(writeUint16BE(stream, uint16), stream, 2)
  /\ UNCHANGED allButStream

WriteUint32BE(uint32) ==
  /\ Callable
  /\ stream' = Written(writeUint32BE(stream, uint32), stream, 4)
  /\ UNCHANGED allButStream

Skip(length) ==
  /\ Callable
  /\ stream' = Written(skip(stream, length), stream, length)
  /\ UNCHANGED allButStream

Seek(pos) ==
  /\ Callable
  /\ stream' = Written(seek(stream, pos), stream, 0)
  /\ UNCHANGED allButStream

\* bytes()
Bytes ==
  /\ stream.made
  /\ stream.returned = NotReturned
  /\ stream' = [stream EXCEPT !.returned = bytesOf(stream)]
  /\ UNCHANGED allButStream

NextStream ==
  \/ \E size \in {0, 4} : Construct(size)
  \/ \E bytes \in { << >>, << 170 >>, << 1, 2, 3, 4 >> } : WriteBytes(bytes)
  \/ WriteUint8(7)
  \/ WriteUint16LE(258)
  \/ WriteUint32LE(16909060)
  \/ WriteInt32LE(-2)
  \/ WriteUint16BE(772)
  \/ WriteUint32BE(84281096)
  \/ \E length \in {0, 2} : Skip(length)
  \/ \E pos \in {0, 2, 9} : Seek(pos)
  \/ Bytes

SpecStream == InitStream /\ [][NextStream]_vars

\* --------------------------------------------------------------------- BMP
\* BMP.Magic, 'BM'
BMPMagic == << 66, 77 >>

Monochrome == 1

Palletized8Bit == 8

BI_RGB == 0

BITMAPINFOHEADER == 40

\* the sizes that name an info header type
InfoHeaderTypes == {12, 16, 40, 52, 56, 64, 108, 124}

PixelDensities == {1, 4, 8, 16, 24}

CompressionTypes == {0, 1, 2, 3, 4, 5, 6, 11, 12, 13}

\* what the checks at the head of encodeInfoHeader throw, "ok" if nothing:
\* validateInfoHeaderType, validatePixelDensity, validateCompressionType and
\* the test of planes
validateInfoHeader(b) ==
  IF b.infoHeaderType \notin InfoHeaderTypes THEN "InvalidInfoHeaderSize"
  ELSE IF b.infoHeaderType # BITMAPINFOHEADER THEN "OnlyBITMAPINFOHEADER"
  ELSE IF b.pixelDensity \notin PixelDensities THEN "InvalidPixelDensity"
  ELSE IF b.pixelDensity # Monochrome THEN "OnlyMonochrome"
  ELSE IF b.compressionType \notin CompressionTypes THEN "InvalidCompressionType"
  ELSE IF b.compressionType # BI_RGB THEN "OnlyUncompressed"
  ELSE IF b.planes # 1 THEN "InvalidPlanes"
  ELSE "ok"

\* encodeHeader(): the magic and the four reserved bytes
encodeHeader(s) == skip(writeBytes(s, BMPMagic), 4)

\* encodeBITMAPINFOHEADER(): eleven fields
encodeBITMAPINFOHEADER(s, b) ==
  LET s1 == writeUint32LE(s, b.infoHeaderType)
      s2 == writeInt32LE(s1, b.width)
      s3 == writeInt32LE(s2, IF ~b.bottomUp /\ b.height > 0 THEN -b.height ELSE b.height)
      s4 == writeUint16LE(s3, b.planes)
      s5 == writeUint16LE(s4, b.pixelDensity)
      s6 == writeUint32LE(s5, b.compressionType)
      s7 == writeUint32LE(s6, 0)
      s8 == writeInt32LE(s7, b.horizontalResolution)
      s9 == writeInt32LE(s8, b.verticalResolution)
      s10 == writeUint32LE(s9, b.usedColors)
  IN writeUint32LE(s10, b.importantColors)

RECURSIVE writeEach(_, _)
\* one writeBytes for each of the chunks, in their order; a writeUint8 is
\* the writeBytes of one byte
writeEach(s, chunks) ==
  IF chunks = << >> THEN s
  ELSE CHOOSE written \in
         { CHOOSE rest \in
             { writeEach(t, Tail(c)) : t \in { writeBytes(s, Head(c)) } } : TRUE :
             c \in {chunks} } : TRUE

\* the number of colours encodePalette writes
paletteSize(b) == IF b.usedColors = 0 THEN 2 ^ b.pixelDensity ELSE b.usedColors

\* encodePalette(): four writeUint8 a colour; a colour missing from the
\* palette is a TypeError
encodePalette(s, b) ==
  IF b.pixelDensity > Palletized8Bit THEN [err |-> "ok", stream |-> s]
  ELSE IF paletteSize(b) > Len(b.palette) THEN [err |-> "TypeError", stream |-> s]
  ELSE [err |-> "ok",
        stream |-> writeEach(s, [k \in 1..(4 * paletteSize(b)) |->
                     LET color == b.palette[((k - 1) \div 4) + 1]
                     IN << << color.red, color.green, color.blue, color.quad >>[((k - 1) % 4) + 1] >>])]

\* pixelsBGRQUAD(), pixel by pixel: the scanlines, the last first if
\* bottomUp
pixelsBGRQUAD(b) ==
  Concat([y \in 1..Len(b.scanlines) |->
            b.scanlines[IF b.bottomUp THEN Len(b.scanlines) + 1 - y ELSE y]])

\* palette.findIndex of a pixel: 0 or 1, -1 if not found or the pixel is
\* missing
paletteIndexOf(b, all, at) ==
  IF at >= Len(all) THEN -1
  ELSE LET found == { k \in 1..Len(b.palette) :
                        all[at + 1] = << b.palette[k].blue, b.palette[k].green,
                                         b.palette[k].red, b.palette[k].quad >> }
       IN IF found = {} THEN -1 ELSE (CHOOSE k \in found : \A j \in found : k <= j) - 1

\* the byte packed from the eight pixels from `at` on, -1 if the search of
\* one of them fails
packByte(b, all, at) ==
  IF \E bit \in 0..7 : paletteIndexOf(b, all, at + bit) = -1 THEN -1
  ELSE paletteIndexOf(b, all, at) * 128 + paletteIndexOf(b, all, at + 1) * 64
       + paletteIndexOf(b, all, at + 2) * 32 + paletteIndexOf(b, all, at + 3) * 16
       + paletteIndexOf(b, all, at + 4) * 8 + paletteIndexOf(b, all, at + 5) * 4
       + paletteIndexOf(b, all, at + 6) * 2 + paletteIndexOf(b, all, at + 7)

\* Math.ceil((pixelDensity * width) / 32) * 4
rowSizeOf(b) == ((b.pixelDensity * b.width + 31) \div 32) * 4

\* the writes of one scanline: a byte for every eight columns, then the
\* padding if rowPadding > 0; Buffer.alloc drops the fraction of rowPadding
rowChunks(b, all, scanline) ==
  [k \in 1..((b.width + 7) \div 8) |-> << packByte(b, all, scanline * b.width + (k - 1) * 8) >>]
  \o (IF rowSizeOf(b) * 8 > b.width * b.pixelDensity
      THEN << [i \in 1..(rowSizeOf(b) - ((b.width * b.pixelDensity + 7) \div 8)) |-> 0] >>
      ELSE << >>)

\* encodeMonochromePixelData(): the scanlines from the last to the first if
\* bottomUp, from the first to the last if not
encodeMonochromePixelData(s, b) ==
  IF Len(b.palette) # 2 THEN [err |-> "InvalidMonochromePalette", stream |-> s]
  ELSE CHOOSE encoded \in
    { IF \E n \in 1..Len(chunks) : chunks[n] = << -1 >>
      THEN [err |-> "InvalidColorPalette", stream |-> s]
      ELSE [err |-> "ok", stream |-> writeEach(s, chunks)] :
        chunks \in { Concat([n \in 1..b.height |->
                       rowChunks(b, pixelsBGRQUAD(b),
                                 IF b.bottomUp THEN b.height - n ELSE n - 1)]) } } : TRUE

\* encode(), and the positions of the stream at its steps
encodeBMP(b) ==
  LET s1 == encodeHeader(NewStreamOut(0))
      s2 == encodeBITMAPINFOHEADER(s1, b)
      p == encodePalette(s2, b)
      dataOffset == sizeOf(p.stream) + 8
      d == encodeMonochromePixelData(p.stream, b)
      size == sizeOf(d.stream)
      s3 == writeUint32LE(seek(d.stream, 2), size + 8)
      s4 == writeUint32LE(seek(s3, 10), dataOffset)
      thrown == IF validateInfoHeader(b) # "ok" THEN validateInfoHeader(b)
                ELSE IF p.err # "ok" THEN p.err
                ELSE d.err
  IN IF thrown # "ok"
     THEN [b EXCEPT !.result = thrown, !.out = NotReturned]
     ELSE [b EXCEPT !.result = "ok",
                    !.paletteColorCount = 2 ^ b.pixelDensity,
                    !.writeStream = [buffer |-> s4.buffer, pos |-> s4.pos],
                    !.out = bytesOf(s4),
                    !.infoStart = s1.pos,
                    !.dataStart = p.stream.pos,
                    !.dataEnd = d.stream.pos,
                    !.unpatched = bytesOf(d.stream)]

\* -------------------------------------------------------------- BMP object
Black == [red |-> 0, green |-> 0, blue |-> 0, quad |-> 0]

White == [red |-> 255, green |-> 255, blue |-> 255, quad |-> 0]

\* scanlines of black and white pixels in a chequered pattern, or of a grey
\* the palette does not hold
BmpScanlines(w, h, pattern) ==
  [y \in 1..h |-> [x \in 1..w |->
     IF pattern = 2 THEN << 128, 128, 128, 0 >>
     ELSE IF (x + y + pattern) % 2 = 0 THEN << 0, 0, 0, 0 >> ELSE << 255, 255, 255, 0 >>]]

\* monochrome images as a caller fills them in before encode()
BmpImages ==
  { [NewBMP EXCEPT !.width = w, !.height = h, !.infoHeaderType = BITMAPINFOHEADER,
                   !.pixelDensity = Monochrome, !.bottomUp = bottomUp,
                   !.usedColors = usedColors, !.palette = << Black, White >>,
                   !.scanlines = BmpScanlines(w, h, pattern)] :
      w \in {8, 9, 16, 32}, h \in {1, 2}, bottomUp \in BOOLEAN,
      usedColors \in {0, 2}, pattern \in {0, 1, 2} }

InitBmp ==
  /\ Idle
  /\ OthersIdle("bmp")
  /\ bmp \in BmpImages

\* bmp.encode()
EncodeBMP ==
  /\ bmp.result = "none"
  /\ bmp' = encodeBMP(bmp)
  /\ UNCHANGED allButBmp

NextBmp == EncodeBMP

SpecBmp == InitBmp /\ [][NextBmp]_vars

\* --------------------------------------------------------------------- TGA
ColorMapNone == 0

UncompressedTrueColor == 2

\* TGA.ImageTypes
ImageTypes == {0, 1, 2, 3, 9, 10, 11}

\* TGA.ColorMapEntrySizes
ColorMapEntrySizes == {0, 16, 24, 32}

Targa32 == 32

\* TGA.PixelDensities
TGAPixelDensities == {16, 24, 32}

AttributeTarga32 == 8

\* what validateColorMapType throws, "ok" if nothing: every byte is a type,
\* only None is supported
validateColorMapType(colorMapType) ==
  IF colorMapType \notin 0..255 THEN "InvalidColorMapType"
  ELSE IF colorMapType # ColorMapNone THEN "OnlyNoColorMap"
  ELSE "ok"

validateImageType(imageType) ==
  IF imageType \notin ImageTypes THEN "InvalidImageType"
  ELSE IF imageType # UncompressedTrueColor THEN "OnlyUncompressedTrueColor"
  ELSE "ok"

validateColorMapEntrySize(colorMapEntrySize) ==
  IF colorMapEntrySize \notin ColorMapEntrySizes THEN "InvalidColorMapEntrySize"
  ELSE IF colorMapEntrySize # 0 THEN "OnlyNoColorMap"
  ELSE "ok"

validatePixelDensity(pixelDensity) ==
  IF pixelDensity \notin TGAPixelDensities THEN "InvalidPixelDensity"
  ELSE IF pixelDensity # Targa32 THEN "OnlyTarga32"
  ELSE "ok"

\* validateAttributeDensity, pixelDensity being imageSpecification.pixelDensity
validateAttributeDensity(pixelDensity, attributeDensity) ==
  IF attributeDensity \notin {1, 0, 8} THEN "InvalidAttributeDensity"
  ELSE IF pixelDensity = 16 /\ attributeDensity # 1 THEN "InvalidAttributeDensity"
  ELSE IF pixelDensity = 24 /\ attributeDensity # 0 THEN "InvalidAttributeDensity"
  ELSE IF pixelDensity = 32 /\ attributeDensity # 8 THEN "InvalidAttributeDensity"
  ELSE IF attributeDensity # AttributeTarga32 THEN "OnlyTarga32"
  ELSE "ok"

\* the image descriptor byte encodeImageSpecification writes
imageDescriptorOf(spec) ==
  (spec.attributeDensity % 16) + (IF spec.bottomUp THEN 1 ELSE 0) * 16
  + (IF spec.leftToRight THEN 1 ELSE 0) * 32

\* the flags parseImageSpecification takes from the image descriptor
leftToRightOf(imageDescriptor) == ((imageDescriptor \div 16) % 4) % 2 # 0

bottomUpOf(imageDescriptor) == (((imageDescriptor \div 16) % 4) \div 2) % 2 # 0

\* encodeColor(color) with no colour map: four bytes
encodeColor(color) == << color.blue, color.green, color.red, color.attribute >>

\* what encode() throws, "ok" if nothing, in the order of its checks
encodeThrown(t) ==
  IF validateColorMapType(t.colorMapType) # "ok" THEN validateColorMapType(t.colorMapType)
  ELSE IF validateImageType(t.imageType) # "ok" THEN validateImageType(t.imageType)
  ELSE IF Len(t.identification) > 255 THEN "IdentificationTooLong"
  ELSE IF validateColorMapEntrySize(t.colorMapSpecification.entrySize) # "ok"
    THEN validateColorMapEntrySize(t.colorMapSpecification.entrySize)
  ELSE IF validatePixelDensity(t.imageSpecification.pixelDensity) # "ok"
    THEN validatePixelDensity(t.imageSpecification.pixelDensity)
  ELSE IF validateAttributeDensity(t.imageSpecification.pixelDensity,
                                   t.imageSpecification.attributeDensity) # "ok"
    THEN validateAttributeDensity(t.imageSpecification.pixelDensity,
                                  t.imageSpecification.attributeDensity)
  ELSE IF t.imageSpecification.width * t.imageSpecification.height # Len(t.pixels)
    THEN "BadDimensions"
  ELSE "ok"

\* the writes of encode() on its StreamOut, in their order: the header, the
\* identification and the pixels, no colour map
encodeWrites(t) ==
  << << Len(t.identification) >>, << t.colorMapType >>, << t.imageType >>,
     U16LE(t.colorMapSpecification.firstEntryIndex), U16LE(t.colorMapSpecification.length),
     << t.colorMapSpecification.entrySize >>,
     U16LE(t.imageSpecification.originX), U16LE(t.imageSpecification.originY),
     U16LE(t.imageSpecification.width), U16LE(t.imageSpecification.height),
     << t.imageSpecification.pixelDensity >>,
     << imageDescriptorOf(t.imageSpecification) >>,
     t.identification >>
  \o [n \in 1..(4 * Len(t.pixels)) |-> << encodeColor(t.pixels[((n - 1) \div 4) + 1])[((n - 1) % 4) + 1] >>]

\* encode(): the bytes() of the stream after the writes
encodeTGA(t) == bytesOf(writeEach(NewStreamOut(0), encodeWrites(t)))

\* the fields of the header in the order parseHeader reads them: offset and
\* size
TgaHeaderFields ==
  << << 0, 1 >>, << 1, 1 >>, << 2, 1 >>, << 3, 2 >>, << 5, 2 >>, << 7, 1 >>,
     << 8, 2 >>, << 10, 2 >>, << 12, 2 >>, << 14, 2 >>, << 16, 1 >>, << 17, 1 >> >>

\* readUint8() or readUint16LE() of the k-th field
headerValue(buffer, k) ==
  IF TgaHeaderFields[k][2] = 1 THEN buffer[TgaHeaderFields[k][1] + 1]
  ELSE buffer[TgaHeaderFields[k][1] + 1] + 256 * buffer[TgaHeaderFields[k][1] + 2]

\* what the read of the k-th field or the validation after it throws
headerThrown(buffer, k) ==
  IF TgaHeaderFields[k][1] + TgaHeaderFields[k][2] > Len(buffer) THEN "RangeError"
  ELSE IF k = 2 THEN validateColorMapType(headerValue(buffer, 2))
  ELSE IF k = 3 THEN validateImageType(headerValue(buffer, 3))
  ELSE IF k = 6 THEN validateColorMapEntrySize(headerValue(buffer, 6))
  ELSE IF k = 11 THEN validatePixelDensity(headerValue(buffer, 11))
  ELSE IF k = 12 THEN validateAttributeDensity(headerValue(buffer, 11),
                                               headerValue(buffer, 12) % 16)
  ELSE "ok"

\* parseFromBuffer(buffer) on the object t: a field is assigned once it is
\* read, before its validation; the pixels are pushed one by one until the
\* data runs out
parseTGA(t, buffer) ==
  LET failing == { k \in 1..12 : headerThrown(buffer, k) # "ok" }
      stop == IF failing = {} THEN 13 ELSE CHOOSE k \in failing : \A j \in failing : k <= j
      thrown == IF stop = 13 THEN "ok" ELSE headerThrown(buffer, stop)
      got(k) == k < stop \/ (k = stop /\ thrown # "RangeError")
      field(k, old) == IF got(k) THEN headerValue(buffer, k) ELSE old
      hdr == [t EXCEPT
                !.imageIdentificationLength = field(1, @),
                !.colorMapType = field(2, @),
                !.imageType = field(3, @),
                !.colorMapSpecification =
                    [firstEntryIndex |-> field(4, @.firstEntryIndex),
                     length |-> field(5, @.length),
                     entrySize |-> field(6, @.entrySize)],
                !.imageSpecification =
                    [originX |-> field(7, @.originX), originY |-> field(8, @.originY),
                     width |-> field(9, @.width), height |-> field(10, @.height),
                     pixelDensity |-> field(11, @.pixelDensity),
                     attributeDensity |-> IF got(12) THEN headerValue(buffer, 12) % 16
                                          ELSE @.attributeDensity,
                     bottomUp |-> IF got(12) THEN bottomUpOf(headerValue(buffer, 12))
                                  ELSE @.bottomUp,
                     leftToRight |-> IF got(12) THEN leftToRightOf(headerValue(buffer, 12))
                                     ELSE @.leftToRight]]
      start == 18 + hdr.imageIdentificationLength
      wanted == hdr.imageSpecification.width * hdr.imageSpecification.height
      whole == IF Len(buffer) > start THEN (Len(buffer) - start) \div 4 ELSE 0
      pushed == Min(wanted, whole)
  IN IF thrown # "ok" THEN [err |-> thrown, tga |-> hdr]
     ELSE [err |-> IF whole < wanted THEN "RangeError" ELSE "ok",
           tga |-> [hdr EXCEPT
                      !.identification = Sub(buffer, 18, start),
                      !.pixels = t.pixels \o
                         [n \in 1..pushed |->
                            [blue |-> buffer[start + 4 * (n - 1) + 1],
                             green |-> buffer[start + 4 * (n - 1) + 2],
                             red |-> buffer[start + 4 * (n - 1) + 3],
                             attribute |-> buffer[start + 4 * (n - 1) + 4]]]]]

\* -------------------------------------------------------------- TGA object
TgaPixel(n) == [blue |-> n, green |-> 2 * n, red |-> 3 * n, attribute |-> 255]

\* TGA objects as a caller fills them in before encode()
TgaImages ==
  { [NewTGA EXCEPT
       !.imageType = imageType,
       !.identification = identification,
       !.imageSpecification =
           [@ EXCEPT !.originX = originX, !.width = size[1], !.height = size[2],
                     !.bottomUp = bottomUp, !.leftToRight = leftToRight],
       !.pixels = [n \in 1..(size[1] * size[2] - short) |-> TgaPixel(n)]] :
      imageType \in {2, 10}, identification \in {<< >>, << 7 >>}, originX \in {0, 258},
      size \in {<< 1, 1 >>, << 2, 1 >>, << 1, 2 >>}, bottomUp \in BOOLEAN,
      leftToRight \in BOOLEAN, short \in {0, 1} }

InitTga ==
  /\ Idle
  /\ OthersIdle("tga")
  /\ tga \in { [NoTga EXCEPT !.from = t] : t \in TgaImages }

\* from.encode()
EncodeTGA ==
  /\ tga.pc = "new"
  /\ tga' = [tga EXCEPT !.pc = "encoded",
                         !.encoded = encodeThrown(tga.from),
                         !.buffer = IF encodeThrown(tga.from) = "ok"
                                    THEN encodeTGA(tga.from) ELSE NotReturned]
  /\ UNCHANGED allButTga

\* into.parseFromBuffer(buffer), of the buffer encode returned or of that
\* buffer cut short
ParseFromBufferTGA(cut) ==
  /\ tga.pc = "encoded"
  /\ tga.encoded = "ok"
  /\ \E r \in { parseTGA(tga.into, Sub(tga.buffer, 0, Len(tga.buffer) - cut)) } :
       tga' = [tga EXCEPT !.pc = "parsed", !.into = r.tga, !.result = r.err,
                          !.buffer = Sub(tga.buffer, 0, Len(tga.buffer) - cut)]
  /\ UNCHANGED allButTga

NextTga ==
  \/ EncodeTGA
  \/ \E cut \in {0, 1, 4} : ParseFromBufferTGA(cut)

SpecTga == InitTga /\ [][NextTga]_vars

\* ------------------------------------------------------ ETC1A4 descramble
\* widths and heights
DescSizes == {4, 8, 12, 16, 24}

\* a decompressed picture in which every pixel names its block (counted
\* along the rows of blocks, from `first` on) and its place in the block
Labelled(w, h, first) ==
  [p \in 1..(w * h) |->
     LET col == (p - 1) % w
         row == (p - 1) \div w
     IN << (first + (row \div 4) * (w \div 4) + (col \div 4)) % 256, col % 4, row % 4, 255 >>]

InitDesc ==
  /\ Idle
  /\ OthersIdle("desc")
  /\ desc \in { [NoDesc EXCEPT !.pc = "input", !.width = w, !.height = h,
                                !.scrambled = Labelled(w, h, first)] :
                   w \in DescSizes, h \in DescSizes, first \in {0, 100, 200} }

\* descramble(scrambled), blocksPerRow and blocksPerColumn as decompress left them
Descramble ==
  /\ desc.pc = "input"
  /\ \E r \in { descramble(desc.scrambled, desc.width, desc.width \div 4,
                            desc.height \div 4) } :
       desc' = [desc EXCEPT !.pc = "done", !.err = r.err, !.descrambled = r.descrambled]
  /\ UNCHANGED allButDesc

NextDesc == Descramble

SpecDesc == InitDesc /\ [][NextDesc]_vars

\* --------------------------------------------------------- RGB565A4 object
\* assignments and calls on one object
MaxRgbOps == 4

\* widths and heights
RgbSizes == {2, 4}

\* a buffer of `length` bytes
RgbBytes(length) == [k \in 1..length |-> (k * 37 + 11) % 256]

\* pixel data for w x h pixels: the colours alone, the colours with the
\* alpha bytes after them, one colour short, one byte more, and none
RgbPixelData(w, h) ==
  { RgbBytes(n) : n \in { w * h * 2, w * h * 2 + ((w * h + 1) \div 2), w * h * 2 - 2,
                          w * h * 2 + 1, 0 } }

\* alpha data for w x h pixels: none, one nibble per pixel, and one byte short
RgbAlphaData(w, h) ==
  { NoAlphaData, [k \in 1..((w * h + 1) \div 2) |-> (k * 59 + 128) % 256],
    [k \in 1..(((w * h + 1) \div 2) - 1) |-> 255] }

InitRgb ==
  /\ Idle
  /\ OthersIdle("rgb")
  /\ rgb = NewRGB565A4

\* rgb565a4.width = w
RgbSetWidth(w) ==
  /\ rgb.ops < MaxRgbOps
  /\ rgb' = [rgb EXCEPT !.width = w, !.op = "set", !.ops = @ + 1]
  /\ UNCHANGED allButRgb

\* rgb565a4.height = h
RgbSetHeight(h) ==
  /\ rgb.ops < MaxRgbOps
  /\ rgb' = [rgb EXCEPT !.height = h, !.op = "set", !.ops = @ + 1]
  /\ UNCHANGED allButRgb

\* rgb565a4.parseFromBuffer(pixelData, alphaData)
RgbParseFromBuffer(pixelData, alphaData) ==
  /\ rgb.ops < MaxRgbOps
  /\ rgb' = parseRGB565A4(rgb, pixelData, alphaData)
  /\ UNCHANGED allButRgb

\* rgb565a4.encode()
RgbEncode ==
  /\ rgb.ops < MaxRgbOps
  /\ rgb' = encodeRGB565A4(rgb)
  /\ UNCHANGED allButRgb

NextRgb ==
  \/ \E w \in RgbSizes : RgbSetWidth(w)
  \/ \E h \in RgbSizes : RgbSetHeight(h)
  \/ \E w \in RgbSizes, h \in RgbSizes :
       \E pixelData \in RgbPixelData(w, h), alphaData \in RgbAlphaData(w, h) :
         RgbParseFromBuffer(pixelData, alphaData)
  \/ RgbEncode

SpecRgb == InitRgb /\ [][NextRgb]_vars

\* ------------------------------------------------------------------- claims
\* the images the round-trip contract covers: a palette-free color type,
\* depth 8 or 16, width * height pixels whose samples fit the depth, gray
\* pixels with equal channels, alpha present exactly with an alpha color type
FitsDepth(v, bd) == v >= 0 /\ v < (IF bd = Bits8 THEN 256 ELSE 65536)

Conforming(img) ==
  /\ img.colorType \in {RGB, RGBA, Grayscale, GrayscaleWithAlpha}
  /\ img.bitDepth \in {Bits8, Bits16}
  /\ Len(img.pixels) = img.width * img.height
  /\ \A k \in 1..Len(img.pixels) :
       LET p == img.pixels[k] IN
         /\ FitsDepth(p.red, img.bitDepth)
         /\ FitsDepth(p.green, img.bitDepth)
         /\ FitsDepth(p.blue, img.bitDepth)
         /\ IsGray(img.colorType) => p.red = p.green /\ p.green = p.blue
         /\ IF HasAlpha(img.colorType) THEN FitsDepth(p.alpha, img.bitDepth)
            ELSE p.alpha = NoAlpha

\* the first call on a new object was parseFromBuffer of the buffer that
\* encode() returned for the image src, and it has ended
DecodedEncoded ==
  /\ pc = "idle"
  /\ op = "parse"
  /\ ops = 1
  /\ out # << >>
  /\ readStream.buffer = out

\* C1: PNG round trip.  parseFromBuffer on a fresh instance, given the buffer
\* encode() returned for a conforming image, succeeds and yields the pixels
\* of that image in the same order.
C1_RoundTrip ==
  (DecodedEncoded /\ Conforming(src)) => (result = "ok" /\ pixels = src.pixels)

\* a 16-bit RGBA image of two pixels has made the round trip
C1_Witness ==
  /\ DecodedEncoded
  /\ Conforming(src)
  /\ src.colorType = RGBA
  /\ src.bitDepth = Bits16
  /\ Len(src.pixels) = 2
  /\ pixels = src.pixels

\* a parseFromBuffer call has ended, normally or with an Error
ParseEnded == op = "parse" /\ pc = "idle"

ParseFailed == ParseEnded /\ result # "ok"

\* the stored CRC of the chunk last read is the CRC-32 of its type and data
CrcOk(c) == c.crc = Crc32(c.type \o c.data)

\* C2: PNG signature check.  parseFromBuffer fails with the malformed-header
\* error, before any chunk is read, for every buffer whose first 8 bytes
\* differ from 89 50 4E 47 0D 0A 1A 0A in any position.
C2_SignatureChecked ==
  (op = "parse" /\ Len(readStream.buffer) >= 8 /\ Sub(readStream.buffer, 0, 8) # Magic)
    => (pc = "idle" /\ result = "MalformedHeader" /\ chunk.n = 0)

\* the chunk last read is an IDAT chunk with a matching CRC, read while the
\* header in force says indexed color
IndexedIDAT ==
  /\ op = "parse"
  /\ chunk.n > 0
  /\ chunk.whole
  /\ chunk.type = IDAT
  /\ CrcOk(chunk)
  /\ seenIHDR
  /\ colorType = Indexed

\* the tags of the chunks processed in this stream before the chunk last read
Earlier ==
  IF Len(chunk.done) = chunk.n
  THEN SubSeq(chunk.done, 1, Len(chunk.done) - 1)
  ELSE chunk.done

PLTEEarlier == \E k \in 1..Len(Earlier) : Earlier[k] = "PLTE"

\* C3: for an indexed-color PNG an IDAT chunk is rejected with the
\* missing-palette error if and only if no PLTE chunk has been processed
\* earlier in the same stream.
C3_MissingPaletteIff ==
  IndexedIDAT => ((pc = "idle" /\ result = "MissingPalette") <=> ~PLTEEarlier)

\* C4: PLTE must not repeat.  A second PLTE chunk after a first one has been
\* processed makes parseFromBuffer fail; the palette is never built from
\* more than one PLTE chunk of a stream.
C4_SinglePLTE ==
  Cardinality({ k \in 1..Len(chunk.done) : chunk.done[k] = "PLTE" }) <= 1

\* C5: PNG decode is all-or-nothing.  Whenever parseFromBuffer fails, the
\* pixels array holds no pixel decoded from the failing input.
C5_AllOrNothing == ParseFailed => pixels = before.pixels

\* the image BufRGB holds
DecodedRGB ==
  /\ width = 1
  /\ height = 2
  /\ bitDepth = Bits8
  /\ colorType = RGB
  /\ pixels = << Pixel(1, 2, 3, NoAlpha), Pixel(4, 5, 6, NoAlpha) >>

\* C6: every call of parseFromBuffer with a well-formed buffer either
\* populates the header fields and pixels from that buffer or fails, also
\* when the object has already completed an earlier parseFromBuffer.
C6_PopulatesOrFails ==
  (ParseEnded /\ result = "ok" /\ readStream.buffer = BufRGB
     /\ before.op \in {"new", "parse"})
    => DecodedRGB

\* C7: PNG encode fails before producing output.  Whenever encode() fails, no
\* byte has been written to the output stream.
C7_NoOutputOnFailure == (op = "encode" /\ result # "ok") => writeStream = << >>

\* C8: checksum verification.  For every chunk read whole, readChunk fails
\* with the checksum error when the stored CRC differs from the CRC-32 of
\* type || data, before any ordering check or dispatch, so that no decoder
\* field changes; a chunk whose stored CRC matches never fails with it.
C8_ChecksumFirst ==
  [][ (chunk'.n = chunk.n + 1 /\ chunk'.whole)
        => IF CrcOk(chunk')
           THEN result' # "ChecksumMismatch"
           ELSE /\ pc' = "idle"
                /\ result' = "ChecksumMismatch"
                /\ UNCHANGED decoded ]_vars

\* a second IHDR chunk with a wrong CRC was reported as a checksum error, not
\* as a duplicate
C8_Witness ==
  /\ ParseFailed
  /\ result = "ChecksumMismatch"
  /\ chunk.n = 2
  /\ chunk.type = IHDR
  /\ seenIHDR

\* the first chunk after the signature of the buffer being parsed
FirstChunk == ReadRaw([buffer |-> readStream.buffer, pos |-> 8])

\* the first chunk is whole, has a matching CRC and is not IHDR
FirstNotIHDR ==
  /\ op = "parse"
  /\ parseHeader(readStream.buffer).err = "ok"
  /\ FirstChunk.whole
  /\ CrcOk(FirstChunk)
  /\ FirstChunk.type # IHDR

\* C9: the first chunk must be IHDR.  If the first chunk after the signature
\* has another type and a valid CRC, parseFromBuffer fails with the
\* out-of-order error and no chunk is dispatched or skipped.
C9_FirstIsIHDR ==
  (FirstNotIHDR /\ (pc = "idle" \/ chunk.n > 0))
    => (pc = "idle" /\ result = "OutOfOrderChunk" /\ chunk.n = 1 /\ chunk.done = << >>)

\* on an object that has made no earlier call the first-chunk rule holds
C9_FreshFirstIsIHDR == (ops = 1 /\ before.op = "new") => C9_FirstIsIHDR

\* the header fields the IHDR rules accept
LegalHeader(bd, ct, cm, fm, im) ==
  /\ bd \in {1, 2, 4, 8, 16}
  /\ ct \in {0, 2, 3, 4, 6}
  /\ ~(ct = Indexed /\ bd = 16)
  /\ ~(ct \in {GrayscaleWithAlpha, RGB, RGBA} /\ bd \in {1, 2, 4})
  /\ cm = 0
  /\ fm = 0
  /\ im = 0

\* the chunk last read is a 13-byte IHDR chunk handed to parseIHDRChunk
IHDRParsed ==
  /\ op = "parse"
  /\ before.op = "new"
  /\ chunk.n = 1
  /\ chunk.whole
  /\ chunk.type = IHDR
  /\ CrcOk(chunk)
  /\ Len(chunk.data) = 13

\* C10: IHDR field validation accepts exactly the legal headers; with the
\* other fields legal, interlace method 1 is rejected as unsupported and any
\* other non-zero value as invalid; seenIHDR becomes true only on success.
C10_LegalHeaders ==
  IHDRParsed =>
    LET d == chunk.data
        succeeded == result \in {"none", "ok"}
    IN /\ succeeded <=> LegalHeader(d[9], d[10], d[11], d[12], d[13])
       /\ (LegalHeader(d[9], d[10], d[11], d[12], 0) /\ d[13] = 1)
            => result = "UnsupportedInterlace"
       /\ (LegalHeader(d[9], d[10], d[11], d[12], 0) /\ d[13] \notin {0, 1})
            => result = "InvalidInterlaceMethod"
       /\ seenIHDR <=> succeeded

\* a 4-bit indexed header was accepted
C10_Witness ==
  /\ IHDRParsed
  /\ chunk.data[9] = Bits4
  /\ chunk.data[10] = Indexed
  /\ seenIHDR
  /\ result = "none"

\* the chunk last read has a valid CRC and a tag that does not start with an
\* uppercase letter
AncillaryRead(c) ==
  /\ c.whole
  /\ CrcOk(c)
  /\ (c.type[1] < 65 \/ c.type[1] > 90)

\* C11: ancillary chunks are skipped without effect.  A readChunk that reads,
\* after IHDR, a chunk with a valid CRC whose tag does not start with an
\* uppercase letter leaves width, height, bitDepth, colorType, palette, the
\* compressed sample data and pixels unchanged, throws nothing, and parse goes
\* on to the next chunk.
C11_AncillarySkipped ==
  [][ (seenIHDR /\ chunk'.n = chunk.n + 1 /\ AncillaryRead(chunk'))
        => /\ pc' = "parsing"
           /\ result' = "none"
           /\ UNCHANGED << width, height, bitDepth, colorType, palette,
                           compressedSampleData, pixels >> ]_vars

\* a chunk tagged 1abc was skipped after IHDR and the IDAT after it was read
C11_Witness ==
  /\ seenIHDR
  /\ pc = "parsing"
  /\ chunk.n = 3
  /\ chunk.done = << "IHDR", "?abc", "IDAT" >>
  /\ compressedSampleData # << >>

\* C12: IEND terminates the chunk state machine.  Once an IEND chunk has been
\* processed parse reads no further chunk: whatever bytes follow, the call
\* returns normally with the stream position and the decoded state unchanged.
C12_IENDTerminates ==
  [][ (pc = "parsing" /\ lastChunkType = "IEND")
        => /\ pc' = "idle"
           /\ result' = "ok"
           /\ chunk' = chunk
           /\ readStream' = readStream
           /\ UNCHANGED decoded ]_vars

\* a parse returned normally after IEND with four more chunks left unread
C12_Witness ==
  /\ pc = "idle"
  /\ op = "parse"
  /\ result = "ok"
  /\ readStream.buffer = BufAfterEnd
  /\ hasData
  /\ chunk.done = << "IHDR", "IDAT", "IEND" >>
  /\ Len(pixels) = 2

\* C13: colorChannels always agrees with colorType.  In every state reached
\* by parseFromBuffer calls, encode calls and assignments to the public fields,
\* colorChannels is the channel count of the current colorType.
C13_ChannelsAgree == colorChannels = ColorTypeChannels(colorType)

\* C14: filter inverse law.  For each of Sub, Up, Average and Paeth, every
\* pixel size, every scanline and every previous reconstructed row of the same
\* length (or none), the unfilter function applied to the forward-filtered
\* scanline returns the scanline.
C14_FilterInverse == filt.pc = "done" => filt.unfiltered = filt.row

\* a Paeth scanline with two-byte pixels and a row above came back, its
\* filtered bytes differing from the raw ones
C14_Witness ==
  /\ filt.pc = "done"
  /\ filt.kind = FilterPaeth
  /\ filt.pixelSize = 2
  /\ filt.prev.has
  /\ filt.filtered[3] # filt.row[3]
  /\ filt.unfiltered = filt.row

\* the distance of x from y
Dist(x, y) == IF x >= y THEN x - y ELSE y - x

\* C15: Paeth predictor.  With p = a + b - c, paethPredictor returns a when
\* |p-a| <= |p-b| and |p-a| <= |p-c|, otherwise b when |p-b| <= |p-c|,
\* otherwise c; it returns a when a = b = c and when pa = pb < pc.
C15_PaethPredictor ==
  paeth.pc = "done" =>
    LET a == paeth.a
        b == paeth.b
        c == paeth.c
        p == a + b - c
    IN /\ (Dist(p, a) <= Dist(p, b) /\ Dist(p, a) <= Dist(p, c)) => paeth.prediction = a
       /\ (~(Dist(p, a) <= Dist(p, b) /\ Dist(p, a) <= Dist(p, c)) /\ Dist(p, b) <= Dist(p, c))
            => paeth.prediction = b
       /\ (~(Dist(p, a) <= Dist(p, b) /\ Dist(p, a) <= Dist(p, c)) /\ ~(Dist(p, b) <= Dist(p, c)))
            => paeth.prediction = c
       /\ (a = b /\ b = c) => paeth.prediction = a
       /\ (Dist(p, a) = Dist(p, b) /\ Dist(p, b) < Dist(p, c)) => paeth.prediction = a

\* a tie between a and c, a + 2b = 3c, went to a
C15_Witness ==
  /\ paeth.pc = "done"
  /\ paeth.a # paeth.c
  /\ Dist(paeth.a + paeth.b - paeth.c, paeth.a) = Dist(paeth.a + paeth.b - paeth.c, paeth.c)
  /\ Dist(paeth.a + paeth.b - paeth.c, paeth.a) < Dist(paeth.a + paeth.b - paeth.c, paeth.b)
  /\ paeth.prediction = paeth.a

\* two pixels of one colour: the same red, green and blue
SameColor(p, q) == p.red = q.red /\ p.green = q.green /\ p.blue = q.blue

InPalette(pal, p) == \E k \in 1..Len(pal) : SameColor(pal[k], p)

\* the 0-based index of the first entry of pal of p's colour
FirstMatch(pal, p) ==
  (CHOOSE k \in 1..Len(pal) :
     SameColor(pal[k], p) /\ \A j \in 1..(k - 1) : ~SameColor(pal[j], p)) - 1

RECURSIVE FirstOccurrences(_, _)
\* the pixels of pix from index k on whose colour no earlier pixel has
FirstOccurrences(pix, k) ==
  IF k > Len(pix) THEN << >>
  ELSE (IF \E j \in 1..(k - 1) : SameColor(pix[j], pix[k]) THEN << >> ELSE << pix[k] >>)
       \o FirstOccurrences(pix, k + 1)

\* the indexed PNG the palette rule asks for: PLTE lists the entries of pal,
\* each scanline holds the filter tag 0 and one index byte for each pixel
IndexedPNG(w, h, bd, pal, pix) ==
  LET triples == Concat([k \in 1..Len(pal) |-> << pal[k].red, pal[k].green, pal[k].blue >>])
      row(y) == << 0 >> \o [x \in 1..w |-> FirstMatch(pal, pix[(y - 1) * w + x])]
      rows == Concat([y \in 1..h |-> row(y)])
  IN Magic \o writeChunk(IHDR, IHDRData(w, h, bd, Indexed, 0, 0, 0))
           \o writeChunk(PLTE, triples)
           \o writeChunk(IDAT, Deflate(rows))
           \o writeChunk(IEND, << >>)

\* encode() has returned or thrown on a valid 8-bit indexed image with
\* width * height pixels
IndexedEncode ==
  /\ op = "encode"
  /\ colorType = Indexed
  /\ bitDepth = Bits8
  /\ compressionMethod = 0 /\ filterMethod = 0 /\ interlaceMethod = InterlaceNone
  /\ width >= 1 /\ height >= 1
  /\ Len(pixels) = width * height
  /\ \A k \in 1..Len(pixels) :
       /\ FitsDepth(pixels[k].red, Bits8)
       /\ FitsDepth(pixels[k].green, Bits8)
       /\ FitsDepth(pixels[k].blue, Bits8)

\* C16: indexed PNG encode palette rule.  With an empty palette, PLTE lists
\* the distinct colours of pixels in order of first occurrence and every pixel
\* is written as the index of its colour; with a palette, encode fails with
\* the colour-not-in-palette error iff some pixel's colour is no palette
\* entry, and otherwise writes for each pixel the index of the first matching
\* entry.
C16_PaletteRule ==
  IndexedEncode =>
    IF before.palette = << >>
    THEN /\ result = "ok"
         /\ out = IndexedPNG(width, height, bitDepth, FirstOccurrences(pixels, 1), pixels)
    ELSE /\ result = "ColorNotInPalette"
               <=> \E k \in 1..Len(pixels) : ~InPalette(before.palette, pixels[k])
         /\ result # "ColorNotInPalette"
               => /\ result = "ok"
                  /\ out = IndexedPNG(width, height, bitDepth, before.palette, pixels)

\* an image of two colours was encoded with a palette that holds the second
\* pixel's colour twice
C16_Witness ==
  /\ IndexedEncode
  /\ result = "ok"
  /\ Len(pixels) = 2
  /\ ~SameColor(pixels[1], pixels[2])
  /\ Len(before.palette) = 3
  /\ SameColor(before.palette[1], pixels[2])
  /\ SameColor(before.palette[3], pixels[2])

\* a block in individual mode whose sub-blocks have the same 4-bit base
\* components, with both table codewords 0 and all pixel index bits 0
Solid(d) ==
  /\ Len(d) = 8
  /\ \A k \in 1..4 : d[k] = 0
  /\ d[5] \in {0, 1}
  /\ \A k \in 6..8 : d[k] \div 16 = d[k] % 16

\* the base colour of a solid block, each component (v << 4) | v
ExpandedBase(d) == << 17 * (d[8] % 16), 17 * (d[7] % 16), 17 * (d[6] % 16) >>

\* C17 as stated: the 16 pixels of a solid block all equal the expanded base
\* colour.
C17_SolidIsBase ==
  (block.pc = "done" /\ Solid(block.data)) =>
    \A k \in 1..16 : SubSeq(block.decompressed[k], 1, 3) = ExpandedBase(block.data)

\* C17 (amended): the 16 pixels of a solid block all have one colour, the
\* expanded base colour with 2, entry 0 of modifier table 0, added to each
\* component and the sum held at 255.
C17_SolidIsBasePlusTwo ==
  (block.pc = "done" /\ Solid(block.data)) =>
    /\ block.err = "ok"
    /\ \A k \in 1..16 :
         \A n \in 1..3 :
           block.decompressed[k][n] =
             (IF ExpandedBase(block.data)[n] + 2 > 255 THEN 255
              ELSE ExpandedBase(block.data)[n] + 2)

\* the solid block of base (15, 0, 7) gave the colour (255, 2, 121)
C17_Witness ==
  /\ block.pc = "done"
  /\ Solid(block.data)
  /\ ExpandedBase(block.data) = << 255, 0, 119 >>
  /\ block.decompressed[16] = << 255, 2, 121, 255 >>

\* the bits set in the 12-bit two's complement form of v
BitsOf(v) == { i \in 0..11 : ((v % 4096) \div (2 ^ i)) % 2 = 1 }

RECURSIVE SumBits(_)
SumBits(bits) ==
  IF bits = {} THEN 0
  ELSE LET i == CHOOSE j \in bits : TRUE
       IN (IF i = 11 THEN -2048 ELSE 2 ^ i) + SumBits(bits \ {i})

\* (v << 3) | (v >> 2)
Expanded5(v) == SumBits(BitsOf(v * 8) \cup BitsOf(v \div 4))

\* the value of a 3-bit delta field
DeltaOf(field) == << 0, 1, 2, 3, -4, -3, -2, -1 >>[field + 1]

\* a block in differential mode
Differential(d) == Len(d) = 8 /\ (d[5] \div 2) % 2 = 1

\* C21: ETC1A4 differential mode.  The delta fields 0..3 decode to 0..3 and
\* 4..7 to -4..-1; each base component of sub-block 2 is the 5-bit component
\* of sub-block 1 plus its delta; both bases are expanded by
\* (v << 3) | (v >> 2); for all 5-bit components and all deltas.
C21_Differential ==
  (block.pc = "done" /\ Differential(block.data)) =>
    /\ block.err = "ok"
    /\ \A n \in 1..3 :
         LET byte == block.data[9 - n]
             v == byte \div 8
             delta == DeltaOf(byte % 8)
         IN /\ block.base[1][n] = Expanded5(v)
            /\ block.base[2][n] = Expanded5(v + delta)

\* red 28 with delta field 4 gave the bases 231 and 198, and blue 9 with
\* delta field 1 gave 74 and 82
C21_Witness ==
  /\ block.pc = "done"
  /\ block.data = DiffBlock(28, 4, 3, 7, 9, 1)
  /\ block.base = << << 231, 24, 74 >>, << 198, 16, 82 >> >>

\* C18: the ETC1A4 tile order table is a permutation.  For every width and
\* height that are positive multiples of 4, getTileScrambledOrder returns a
\* table of length blocksPerRow * blocksPerColumn in which every block index
\* 0 .. blocksPerRow * blocksPerColumn - 1 occurs exactly once.
C18_OrderIsPermutation ==
  order.pc = "done" =>
    LET t == order.s.orderTable
        n == order.blocksPerRow * order.blocksPerColumn
    IN /\ Len(t) = n
       /\ \A b \in 0..(n - 1) : Cardinality({ k \in 1..n : t[k] = b }) = 1

\* the last parseFromBuffer ran on an object whose width and height were set
EtcParsed ==
  /\ etc.result # "none"
  /\ etc.blocksPerRow \notin {Undef, NaN}
  /\ etc.blocksPerColumn \notin {Undef, NaN}

\* the number of 4x4 blocks of the image of that call
EtcBlocks == etc.blocksPerRow * etc.blocksPerColumn

\* C19: ETC1A4 alpha presence follows the block byte size.  When the input is
\* made of 8-byte colour-only blocks (buffer length = 8 * number of 4x4
\* blocks) the decoder reads 8 bytes per block, and every decoded pixel has
\* alpha 0xFF; a leading 8-byte alpha sub-block is read only from 16-byte
\* blocks.
C19_AlphaFollowsBlockSize ==
  (EtcParsed /\ Len(etc.buffer) = 8 * EtcBlocks) =>
    /\ etc.result = "ok"
    /\ etc.hasAlpha = FALSE
    /\ etc.pos = 8 * EtcBlocks
    /\ Len(etc.pixels) = 16 * EtcBlocks
    /\ \A p \in 1..Len(etc.pixels) : etc.pixels[p][4] = 255

\* C20: ETC1A4 input size is validated.  parseFromBuffer fails with a
\* buffer-size-mismatch error whenever the buffer length differs from the
\* length expected for the configured width and height (8 or 16 bytes per
\* block), shorter or longer, and then no pixels are produced.
C20_SizeValidated ==
  (EtcParsed /\ Len(etc.buffer) \notin {8 * EtcBlocks, 16 * EtcBlocks}) =>
    /\ etc.result = "BufferSizeMismatch"
    /\ etc.pixels = << >>

\* C22: RGB565A4.parseFromBuffer with alphaData undefined and a pixelData
\* that carries the alpha bytes after the colour bytes (length = width *
\* height * 2 + ceil(width * height / 2)) does not fail: the leading width *
\* height * 2 bytes are read as the colours and the bytes after them as the
\* 4-bit alpha data of the pixels.
C22_TrailingAlpha ==
  LET size == rgb.width * rgb.height IN
  (/\ rgb.op = "parse"
   /\ rgb.width # Undef
   /\ rgb.height # Undef
   /\ rgb.alphaData = NoAlphaData
   /\ Len(rgb.pixelData) = size * 2 + ((size + 1) \div 2)) =>
    /\ rgb.result = "ok"
    /\ SubSeq(rgb.pixels, rgb.before + 1, Len(rgb.pixels)) =
         rgbLoop(rgb.width, rgb.height, Sub(rgb.pixelData, 0, size * 2),
                 Sub(rgb.pixelData, size * 2, Len(rgb.pixelData))).pushed

\* C23: PNG decode consumes exactly `height` scanlines.  After every
\* successful parseFromBuffer, pixels.length equals width * height, whatever
\* the length of the decompressed sample stream.
C23_HeightScanlines ==
  (ParseEnded /\ result = "ok") =>
    /\ width # Undef
    /\ height # Undef
    /\ Len(pixels) = width * height

\* the sixteen pixels of the block at place b, counted along the rows of
\* blocks, of a picture of this width
BlockAt(picture, width_, b) ==
  [k \in 0..15 |->
     picture[((b % (width_ \div 4)) * 4 + (k % 4))
             + (((b \div (width_ \div 4)) * 4 + (k \div 4)) * width_) + 1]]

\* the order table of the picture descrambled
DescTable == getTileScrambledOrder(desc.width \div 4, desc.height \div 4)

DescBlocks == (desc.width \div 4) * (desc.height \div 4)

Nibble(alphaBlock, n) == (alphaBlock[(n \div 2) + 1] \div (IF n % 2 = 0 THEN 1 ELSE 16)) % 16

\* (nibble << 4) | nibble
Expanded4(nibble) == SumBits(BitsOf(nibble * 16) \cup BitsOf(nibble))

\* the last parseFromBuffer returned a square picture decoded from blocks
\* with alpha
EtcAlphaDecoded ==
  /\ EtcParsed
  /\ etc.result = "ok"
  /\ etc.hasAlpha = TRUE
  /\ etc.blocksPerRow = etc.blocksPerColumn

\* the alpha sub-block of the block of the file shown at place i of the raster
AlphaBlockAt(i) ==
  LET k == getTileScrambledOrder(etc.blocksPerRow, etc.blocksPerColumn)[i + 1]
  IN Sub(etc.buffer, 16 * k, 16 * k + 8)

\* the alpha of the pixel at column x, row y of the block at place i
AlphaAt(i, x, y) ==
  etc.pixels[((i % etc.blocksPerRow) * 4 + x)
             + (((i \div etc.blocksPerRow) * 4 + y) * (etc.blocksPerRow * 4)) + 1][4]

\* C25 as stated: the alpha of the block-local pixel at column x and row y is
\* the nibble with raster index y*4 + x of the alpha sub-block, expanded as
\* (nibble<<4)|nibble.
C25_AlphaRaster ==
  EtcAlphaDecoded =>
    \A i \in 0..(EtcBlocks - 1) : \A x \in 0..3 : \A y \in 0..3 :
      AlphaAt(i, x, y) = Expanded4(Nibble(AlphaBlockAt(i), y * 4 + x))

\* C25 (amended): the alpha of the block-local pixel at column x and row y is
\* the nibble with column-major index x*4 + y of the alpha sub-block (low
\* half of a byte first), expanded as (nibble<<4)|nibble, for all x, y in
\* 0..3 and every block of a decoded square picture.
C25_AlphaColumnMajor ==
  EtcAlphaDecoded =>
    \A i \in 0..(EtcBlocks - 1) : \A x \in 0..3 : \A y \in 0..3 :
      AlphaAt(i, x, y) = Expanded4(Nibble(AlphaBlockAt(i), x * 4 + y))

\* an 8 x 8 picture whose second block carries the nibbles 0 .. 15: its
\* pixel at column 1, row 0 has the alpha of nibble 4, the one at column 0,
\* row 1 that of nibble 1
C25_Witness ==
  /\ EtcAlphaDecoded
  /\ etc.blocksPerRow = 2
  /\ AlphaBlockAt(1) = << 16, 50, 84, 118, 152, 186, 220, 254 >>
  /\ AlphaAt(1, 1, 0) = 68
  /\ AlphaAt(1, 0, 1) = 17

\* C26: StreamOut.bytes() returns the buffer trimmed to the actual written
\* size.  After any sequence of writeBytes, writeUintN, skip and seek calls
\* its length is the highest position ever written and it holds every byte
\* written, also when seek has moved the cursor back.
C26_BytesIsAllWritten ==
  stream.returned # NotReturned =>
    /\ Len(stream.returned) = Len(stream.written)
    /\ \A p \in 1..Len(stream.written) :
         stream.written[p] # Undef => stream.returned[p] = stream.written[p]

\* readUint32LE at an offset of a buffer, Undef if the buffer ends before
ReadU32LE(buf, at) ==
  IF at + 4 > Len(buf) THEN Undef
  ELSE buf[at + 1] + 256 * (buf[at + 2] + 256 * (buf[at + 3] + 256 * buf[at + 4]))

\* C27: BMP.encode() returns a complete file.  The returned buffer runs from
\* the 'BM' magic through the last scanline byte, its file-size field
\* (offset 2) is its length, its data-offset field (offset 10) is the offset
\* of the first scanline byte, and the write-back of the two fields leaves
\* every info-header and palette byte as it was written.
C27_CompleteFile ==
  bmp.result = "ok" =>
    /\ Sub(bmp.out, 0, 2) = BMPMagic
    /\ Len(bmp.out) = bmp.dataEnd
    /\ ReadU32LE(bmp.out, 2) = Len(bmp.out)
    /\ ReadU32LE(bmp.out, 10) = bmp.dataStart
    /\ \A q \in bmp.infoStart..(bmp.dataStart - 1) :
         bmp.writeStream.buffer[q + 1] = bmp.unpatched[q + 1]

\* C28: a normal return of PNG.parseFromBuffer implies the chunk state
\* machine reached Ended.  If parseFromBuffer returns without error, an IHDR
\* chunk and then an IEND chunk were processed; a buffer that holds only
\* the signature, or whose chunks stop before IEND, is not accepted.
C28_ReturnMeansEnded ==
  (ParseEnded /\ result = "ok") =>
    /\ chunk.n >= 2
    /\ seenIHDR
    /\ lastChunkType = "IEND"

\* the sixteen pixels decoded from the k-th 16-byte block of the file, row
\* by row
DecodedBlock(k) ==
  LET b == blockOf(etc.buffer, k, 16, TRUE) IN
  [n \in 0..15 |-> << b.color.decompressed[n + 1][1], b.color.decompressed[n + 1][2],
                      b.color.decompressed[n + 1][3], alphaOf(b.alphaBlock, n % 4, n \div 4) >>]

\* C29: ETC1A4 block placement covers the image for non-square sizes too.
\* For every width and height that are positive multiples of 4 decompress
\* places the k-th block read at block column k mod blocksPerRow and block
\* row k div blocksPerRow, no write of decompress or descramble falls
\* outside the buffer, and the picture returned has width x height pixels.
C29_PlacementCovers ==
  (EtcParsed /\ Len(etc.buffer) = 16 * EtcBlocks) =>
    LET d == decompress(etc.blocksPerRow * 4, etc.blocksPerColumn * 4, etc.buffer) IN
    /\ d.err = "ok"
    /\ \A k \in 0..(EtcBlocks - 1) :
         BlockAt(d.decompressed, etc.blocksPerRow * 4, k) = DecodedBlock(k)
    /\ etc.result = "ok"
    /\ Len(etc.pixels) = 16 * EtcBlocks

\* C30: TGA orientation flags survive a round trip.  For every pair of
\* values of imageSpecification.bottomUp and imageSpecification.leftToRight,
\* parseFromBuffer on a fresh TGA instance applied to the buffer returned by
\* encode() yields the same bottomUp and the same leftToRight.
C30_FlagsRoundTrip ==
  (tga.pc = "parsed" /\ tga.result = "ok") =>
    /\ tga.into.imageSpecification.bottomUp = tga.from.imageSpecification.bottomUp
    /\ tga.into.imageSpecification.leftToRight = tga.from.imageSpecification.leftToRight

====
